---- MODULE Spec2Model ----
(***************************************************************************)
(* Swarm Oracle agent swarm: BaseAgent lifecycle, the four agent roles'    *)
(* processTask, the AgentCoordinator registry and the SwarmOrchestrator    *)
(* pipeline, as state machines translated from the TypeScript/JavaScript   *)
(* sources under src/agents.                                               *)
(***************************************************************************)
EXTENDS Integers, Sequences, FiniteSets, TLC

(***************************************************************************)
(* Wiring of the swarm (src/agents/src/index.ts).                          *)
(***************************************************************************)
CollectorIds == <<"twitter-collector", "reddit-collector", "news-collector", "onchain-collector">>

CollectorTypes == <<"twitter", "reddit", "news", "onchain">>

AnalystIds == <<"technical-analyst", "fundamental-analyst", "sentiment-analyst", "correlation-analyst">>

AnalystTypes == <<"technical", "fundamental", "sentiment", "correlation">>

DeliberationIds == <<"consensus-facilitator", "dispute-resolver">>

DeliberationTypes == <<"facilitator", "resolver">>

ExecutionIds == <<"risk-manager", "cross-chain-executor", "mev-protector">>

ExecutionTypes == <<"risk_manager", "cross_chain", "mev_protector">>

Range(s) == {s[i] : i \in DOMAIN s}

Min(a, b) == IF a < b THEN a ELSE b

AllAgentIds == CollectorIds \o AnalystIds \o DeliberationIds \o ExecutionIds

AllAgentTypes == CollectorTypes \o AnalystTypes \o DeliberationTypes \o ExecutionTypes

AllAgents == Range(AllAgentIds)

\* BaseAgent.getType(): the type string the agent was constructed with.
getType(a) == AllAgentTypes[CHOOSE i \in DOMAIN AllAgentIds : AllAgentIds[i] = a]

\* The class an agent id was constructed from in index.ts.
RoleOf(a) ==
    IF a \in Range(CollectorIds) THEN "collector"
    ELSE IF a \in Range(AnalystIds) THEN "analyst"
    ELSE IF a \in Range(DeliberationIds) THEN "deliberator"
    ELSE "executor"

(***************************************************************************)
(* Bounds of the model.                                                    *)
(***************************************************************************)
\* Items one provider call may return.
MaxItems == 1

\* Memory entries stored in one behaviour (all agents together).
MaxStores == 2

\* Largest clock value.
MaxTime == 1

(***************************************************************************)
(* JavaScript values: a property that is absent reads as undefined; an      *)
(* evaluation either returns a value or throws.                            *)
(***************************************************************************)
Undefined == "undefined"

HasProp(r, k) == k \in DOMAIN r

GetProp(r, k) == IF HasProp(r, k) THEN r[k] ELSE Undefined

Return(v) == [thrown |-> FALSE, val |-> v]

Throw(m) == [thrown |-> TRUE, msg |-> m]

(***************************************************************************)
(* Tasks handed to processTask: records with a `type` and the properties    *)
(* the handler of that type reads.  For the handlers that read a nested     *)
(* argument (task.data, task.dispute, task.tradeDetails, task.riskData,     *)
(* task.bridgeData), `shape` says how much of it the task carries:          *)
(*   absent     the argument property is missing                           *)
(*   nodata     the argument is an object without a `data` property         *)
(*   malformed  `data` is there but its members are missing / null          *)
(*   wellformed `data` carries every member the handler reads               *)
(* A deliberate task carries `proposals` and `consensus_threshold` (in      *)
(* tenths), or neither.                                                     *)
(***************************************************************************)
TaskShapes == {"absent", "nodata", "malformed", "wellformed"}

VARIABLES
    now,            \* Date.now()
    status,         \* BaseAgent.status, per agent
    startTime,      \* BaseAgent.startTime, per agent
    lastActivityTime, \* BaseAgent.lastActivityTime, per agent
    errorCount,     \* BaseAgent.errorCount, per agent
    tasksCompleted, \* BaseAgent.tasksCompleted, per agent
    memory,         \* BaseAgent.memory, per agent: sequence of entries
    stores,         \* number of storeMemory calls made so far (bounded)
    lastCall        \* the last processTask call made from outside the pipeline

VARIABLES
    self,               \* the agent whose lifecycle calls a behaviour follows
    registry,           \* AgentCoordinator.agents: the registered agents, in Map order
    messageQueues,      \* AgentCoordinator.messageQueues: id -> mailbox
    dbStatus,           \* persistence gateway: last registration status written, per agent
    recoveryTimers,     \* pending setTimeout callbacks of recordError, per agent
    collectionInterval, \* DataCollectorAgent.collectionInterval: 0 (undefined) or a timer id
    liveIntervals,      \* interval timers set and not cleared, per agent
    intervalsSet,       \* number of setInterval calls made, per agent
    startCalls,         \* start() calls made, per agent
    startsAwaiting,     \* start() calls suspended at their await, per agent
    stopsAwaiting,      \* stop() calls suspended at their await, per agent
    lastLifecycleCall,  \* the last of start() / stop() invoked, per agent
    collections         \* timer-driven collectData runs, per agent

VARIABLES
    taskQueue,   \* SwarmOrchestrator.taskQueue
    tasksAdded,  \* number of addTask calls made (task ids are 1..tasksAdded)
    run,         \* per task id: the state of the orchestrator's processTask call for it
    agents,      \* SwarmOrchestrator.agents: the agent lists given to the constructor
    isRunning,   \* SwarmOrchestrator.isRunning
    processInterval, \* SwarmOrchestrator.processInterval: 0 (null) or a timer id
    timers,      \* the interval timers the orchestrator has set and that are live
    control      \* the start() / stop() call in progress, and the last one returned

VARIABLES
    fnInput,     \* the arguments of a pure computation under check
    fnOutput     \* what the computation returned

fnVars == <<fnInput, fnOutput>>

VARIABLES
    markets,             \* PredictionMarket.markets: marketId -> Market
    nextMarketId,        \* PredictionMarket.nextMarketId
    positions,           \* PredictionMarket.positions: marketId -> user -> Position
    agentPredictions,    \* PredictionMarket.agentPredictions: marketId -> AgentPrediction[]
    authorizedAgents,    \* PredictionMarket.authorizedAgents, as the set of authorized addresses
    agentReputation,     \* PredictionMarket.agentReputation
    paused,              \* Pausable's flag
    tokenBalance,        \* bettingToken.balanceOf(address(this))
    blockTimestamp,      \* block.timestamp
    vrfRequestToMarketId, \* PredictionMarket.vrfRequestToMarketId: requestId -> marketId
    vrfFulfilled         \* the request ids the VRF coordinator has answered

chainVars ==
    <<markets, nextMarketId, positions, agentPredictions, authorizedAgents, agentReputation,
      paused, tokenBalance, blockTimestamp, vrfRequestToMarketId, vrfFulfilled>>

VARIABLES
    messageData,        \* DatabaseManager.messageData: the persisted messages
    messagesSent,       \* number of sendMessage calls made so far (bounded)
    deliveries,         \* the handleMessage invocations made so far, in order
    sending,            \* sendMessage calls suspended at an await
    broadcast,          \* the broadcastMessage call in progress, if any
    coordinatorCalls,   \* number of registerAgent / unregisterAgent calls (bounded)
    database            \* DatabaseManager.connected and .fallbackMode

messagingVars ==
    <<messageData, messagesSent, deliveries, sending, broadcast, coordinatorCalls, database>>

runVars == <<isRunning, processInterval, timers, control>>

orchestratorVars == <<taskQueue, tasksAdded, run, agents, runVars>>

agentVars == <<status, startTime, lastActivityTime, errorCount, tasksCompleted, memory, stores>>

lifecycleVars ==
    <<self, registry, messageQueues, dbStatus, recoveryTimers, collectionInterval,
      liveIntervals, intervalsSet, startCalls, startsAwaiting, stopsAwaiting,
      lastLifecycleCall, collections>>

(***************************************************************************)
(* BaseAgent memory (src/unnamed/part_010).                                *)
(***************************************************************************)
maxMemorySize == 1000

storeMemoryUntrimmed(mem, entry) == Append(mem, entry)

\* BaseAgent.storeMemory: push, then keep the last maxMemorySize entries.
storeMemory(mem, entry) ==
    LET pushed == Append(mem, entry)
    IN  IF Len(pushed) > maxMemorySize
        THEN SubSeq(pushed, Len(pushed) - maxMemorySize + 1, Len(pushed))
        ELSE pushed

\* Array.prototype.sort((a, b) => b.timestamp - a.timestamp): stable, in place.
\* Entries come out by descending timestamp; entries of one timestamp keep
\* the order they had in the array.
RECURSIVE SortDescBy(_, _)
SortDescBy(s, stamps) ==
    IF stamps = {} THEN <<>>
    ELSE LET latest == CHOOSE x \in stamps : \A y \in stamps : y <= x
             IsLatest(e) == e.timestamp = latest
         IN  SelectSeq(s, IsLatest) \o SortDescBy(s, stamps \ {latest})

SortDesc(s) == SortDescBy(s, {s[i].timestamp : i \in DOMAIN s})

\* BaseAgent.getMemoriesByType(type, limit): filter copies the array, so the
\* sort does not touch this.memory.
getMemoriesByType(mem, type, limit) ==
    LET OfType(m) == m.type = type
        sorted == SortDesc(SelectSeq(mem, OfType))
    IN  SubSeq(sorted, 1, Min(limit, Len(sorted)))

\* BaseAgent.getRecentMemories(limit): what it returns (the sort also leaves
\* this.memory itself sorted).
getRecentMemories(mem, limit) == SubSeq(SortDesc(mem), 1, Min(limit, Len(mem)))

(***************************************************************************)
(* DataCollectorAgent (src/agents/dist/agents/DataCollectorAgent.js).       *)
(***************************************************************************)
\* processCollectedData: one memory entry of type data_collection per item.
CollectedEntry(a, t) ==
    [type |-> "data_collection", timestamp |-> t, data |-> [source |-> getType(a)]]

\* collectData: the provider returned n items; each is stored in memory.  A
\* provider failure is caught inside and is the case n = 0.
RECURSIVE collectData(_, _, _, _)
collectData(mem, a, n, t) ==
    IF n = 0 THEN mem
    ELSE collectData(storeMemory(mem, CollectedEntry(a, t)), a, n - 1, t)

\* Raw items one provider call returns at most, and provider calls (topics,
\* subreddits) of one collectData run.
MaxRaw == 1

MaxTopics == 2

\* What one provider call does: throw, or return a number of raw items.
ProviderOutcomes == [threw : {TRUE}] \cup [threw : {FALSE}, items : 0..MaxRaw]

\* collectTwitterData / collectRedditData / collectNewsData: one provider
\* call per topic; a call that throws is caught and skipped, every other call
\* pushes one item, whose volume is the number of raw items returned.
RECURSIVE collectSentimentData(_)
collectSentimentData(calls) ==
    IF calls = <<>> THEN <<>>
    ELSE (IF Head(calls).threw THEN <<>>
          ELSE <<[type |-> "sentiment", volume |-> Head(calls).items]>>)
         \o collectSentimentData(Tail(calls))

\* getRecentCollectedData: the data of the data_collection entries among the
\* five most recent memories.
getRecentCollectedData(mem) ==
    LET recent == getRecentMemories(mem, 5)
    IN  [i \in {j \in DOMAIN recent : recent[j].type = "data_collection"} |-> recent[i].data]

\* The memory after processTask(collect_data): collectData stored n items and
\* getRecentMemories sorted this.memory in place.
CollectorMemoryAfter(mem, a, task, n, t) ==
    IF task.type = "collect_data" THEN SortDesc(collectData(mem, a, n, t)) ELSE mem

\* processTask as it would be if every task type ran the collect_data case.
CollectorProcessTaskAny(a, task, mem, n, t) ==
    Return([agentId |-> a, taskType |-> "data_collection", timestamp |-> t,
            success |-> TRUE,
            dataPoints |-> Cardinality(DOMAIN getRecentCollectedData(collectData(mem, a, n, t)))])

\* DataCollectorAgent.processTask.
CollectorProcessTask(a, task, mem, n, t) ==
    IF task.type = "collect_data"
    THEN Return([agentId |-> a, taskType |-> "data_collection", timestamp |-> t,
                 success |-> TRUE,
                 dataPoints |-> Cardinality(DOMAIN getRecentCollectedData(collectData(mem, a, n, t)))])
    ELSE Return([agentId |-> a, taskType |-> task.type, timestamp |-> t,
                 success |-> FALSE, error |-> "Unknown task type"])

(***************************************************************************)
(* AnalystAgent (src/unnamed/part_011).  The data array of an analyze_data  *)
(* task is a sequence of items, each one of ItemKinds:                      *)
(*   null        a null entry (reading d.type throws)                       *)
(*   result      a collector Result (no type, no prices: what the pipeline  *)
(*               passes in dataCollection)                                  *)
(*   price_up / price_down / price_flat                                     *)
(*               a price observation whose last two samples rise / fall /   *)
(*               are equal                                                  *)
(*   news, news_pos, news_neg, social_pos, social_neg                       *)
(*               a news / social observation without sentiment, or with     *)
(*               sentiment +1 / -1                                          *)
(***************************************************************************)
ItemKinds ==
    {"null", "result", "price_up", "price_down", "price_flat",
     "news", "news_pos", "news_neg", "social_pos", "social_neg"}

ItemType(k) ==
    IF k \in {"price_up", "price_down", "price_flat"} THEN "price"
    ELSE IF k \in {"news", "news_pos", "news_neg"} THEN "news"
    ELSE IF k \in {"social_pos", "social_neg"} THEN "social"
    ELSE Undefined

\* item.sentiment: +1, -1, or 0 for a missing sentiment.
ItemSentiment(k) ==
    IF k \in {"news_pos", "social_pos"} THEN 1
    ELSE IF k \in {"news_neg", "social_neg"} THEN -1
    ELSE 0

RECURSIVE CountItems(_, _)
CountItems(items, types) ==
    IF items = <<>> THEN 0
    ELSE (IF ItemType(Head(items)) \in types THEN 1 ELSE 0) + CountItems(Tail(items), types)

RECURSIVE SumSentiment(_, _)
SumSentiment(items, types) ==
    IF items = <<>> THEN 0
    ELSE (IF ItemType(Head(items)) \in types THEN ItemSentiment(Head(items)) ELSE 0)
         + SumSentiment(Tail(items), types)

RECURSIVE CountSentiment(_, _)
CountSentiment(items, types) ==
    IF items = <<>> THEN 0
    ELSE (IF ItemType(Head(items)) \in types /\ ItemSentiment(Head(items)) # 0 THEN 1 ELSE 0)
         + CountSentiment(Tail(items), types)

HasNull(items) == \E i \in DOMAIN items : items[i] = "null"

\* data.find(d => d.type === 'price' || d.prices): the first price item, a
\* throw when a null entry comes before it, "none" when there is neither.
RECURSIVE FindPrice(_)
FindPrice(items) ==
    IF items = <<>> THEN "none"
    ELSE IF Head(items) = "null" THEN "throw"
    ELSE IF ItemType(Head(items)) = "price" THEN Head(items)
    ELSE FindPrice(Tail(items))

NullItemError == "Cannot read properties of null (reading 'type')"

Clamp(lo, x, hi) == IF x < lo THEN lo ELSE IF x > hi THEN hi ELSE x

\* performTechnicalAnalysis; confidence in hundredths.
performTechnicalAnalysis(items) ==
    LET priceData == FindPrice(items)
    IN  IF priceData = "throw" THEN Throw(NullItemError)
        ELSE IF priceData = "none"
        THEN Return([trend |-> "neutral", confidence |-> 10])
        ELSE Return([trend |-> IF priceData = "price_up" THEN "bullish"
                               ELSE IF priceData = "price_down" THEN "bearish"
                               ELSE "neutral",
                     confidence |-> "by_price_change"])

\* performFundamentalAnalysis; score and confidence in hundredths;
\* factors.overallSentiment is fundamentalScore > 0.5 ? 'positive' : 'negative'.
performFundamentalAnalysis(items) ==
    IF HasNull(items) THEN Throw(NullItemError)
    ELSE LET fundamentalScore == Clamp(0, 50 + 10 * SumSentiment(items, {"news"}), 100)
         IN  Return([score |-> fundamentalScore,
                     confidence |-> Min(10 * CountItems(items, {"news"}), 100),
                     overallSentiment |-> IF fundamentalScore > 50 THEN "positive"
                                          ELSE "negative"])

\* performSentimentAnalysis; score > 0.6 iff the mean sentiment is above 0.2,
\* score < 0.4 iff it is below -0.2.
performSentimentAnalysis(items) ==
    LET types == {"social", "news"}
        count == CountSentiment(items, types)
        sum   == SumSentiment(items, types)
    IN  IF HasNull(items) THEN Throw(NullItemError)
        ELSE IF CountItems(items, types) = 0
        THEN Return([sentiment |-> "neutral", confidence |-> 10])
        ELSE Return([sentiment |-> IF count > 0 /\ 5 * sum > count THEN "bullish"
                                   ELSE IF count > 0 /\ 5 * sum < 0 - count THEN "bearish"
                                   ELSE "neutral",
                     confidence |-> Min(5 * CountItems(items, types), 100)])

\* performCorrelationAnalysis; confidence in hundredths.
performCorrelationAnalysis(items) ==
    IF HasNull(items) THEN Throw(NullItemError)
    ELSE Return([correlations |-> "computed",
                 confidence |-> Min(10 * CountItems(items, {"price"}), 100)])

\* analyzeData: dispatch on the agent's analysisType.
analyzeData(a, items) ==
    IF getType(a) = "technical" THEN performTechnicalAnalysis(items)
    ELSE IF getType(a) = "fundamental" THEN performFundamentalAnalysis(items)
    ELSE IF getType(a) = "sentiment" THEN performSentimentAnalysis(items)
    ELSE IF getType(a) = "correlation" THEN performCorrelationAnalysis(items)
    ELSE Throw("Unknown analysis type")

\* The try block of AnalystAgent.processTask: the data array is task.data's
\* array (task.data itself, or task.data.dataCollection), else empty.
AnalystBody(a, task, t) ==
    IF task.type = "analyze_data"
    THEN LET o == analyzeData(a, IF HasProp(task, "items") THEN task.items ELSE <<>>)
         IN  IF o.thrown THEN o
             ELSE Return([agentId |-> a, taskType |-> "analysis", timestamp |-> t,
                          success |-> TRUE, analysis |-> o.val])
    ELSE Return([agentId |-> a, taskType |-> task.type, timestamp |-> t,
                 success |-> FALSE, error |-> "Unknown task type"])

\* AnalystAgent.processTask: the try block, and the catch that turns a throw
\* into a failure Result.
AnalystProcessTask(a, task, t) ==
    LET o == AnalystBody(a, task, t)
    IN  IF o.thrown
        THEN Return([agentId |-> a, taskType |-> task.type, timestamp |-> t,
                     success |-> FALSE, error |-> o.msg])
        ELSE o

(***************************************************************************)
(* DeliberationAgent (src/agents/dist/agents/DeliberationAgent.js).         *)
(***************************************************************************)
Directions == <<"bullish", "bearish", "neutral">>

\* analyzePredictions: the vote count of each direction.  A prediction votes
\* when prediction.prediction.direction is set; totalPredictions counts all.
RECURSIVE CountDirection(_, _)
CountDirection(predictions, d) ==
    IF predictions = <<>> THEN 0
    ELSE (IF Head(predictions).direction = d THEN 1 ELSE 0)
         + CountDirection(Tail(predictions), d)

\* The sum of prediction.confidence || 0.5 over the predictions, in tenths.
RECURSIVE SumConfidence(_)
SumConfidence(predictions) ==
    IF predictions = <<>> THEN 0
    ELSE (IF Head(predictions).confidence = 0 THEN 5 ELSE Head(predictions).confidence)
         + SumConfidence(Tail(predictions))

analyzePredictions(predictions) ==
    [totalPredictions |-> Len(predictions),
     directions |-> [d \in Range(Directions) |-> CountDirection(predictions, d)],
     averageConfidence |-> [num |-> SumConfidence(predictions), den |-> 10 * Len(predictions)]]

\* Object.entries(directions).reduce((a, b) => directions[a[0]] > directions[b[0]] ? a : b)
\* over the entries in insertion order bullish, bearish, neutral.
RECURSIVE ReduceDominantLess(_, _, _)
ReduceDominantLess(directions, acc, i) ==
    IF i > Len(Directions) THEN acc
    ELSE ReduceDominantLess(directions,
                            IF directions[acc] < directions[Directions[i]] THEN acc ELSE Directions[i],
                            i + 1)

RECURSIVE ReduceDominant(_, _, _)
ReduceDominant(directions, acc, i) ==
    IF i > Len(Directions) THEN acc
    ELSE ReduceDominant(directions,
                        IF directions[acc] > directions[Directions[i]] THEN acc ELSE Directions[i],
                        i + 1)

\* A JavaScript quotient num / den of two non-negative integers, kept exact;
\* 0 / 0 is NaN, and every comparison with NaN is false.
Ratio(num, den) == [num |-> num, den |-> den]

IsNaN(r) == r.den = 0

\* r >= tenths / 10
RatioGeqTenths(r, tenths) == ~IsNaN(r) /\ r.num * 10 >= tenths * r.den

\* calculateConsensus(analysis, threshold); threshold in tenths.
calculateConsensus(analysis, threshold) ==
    LET total == analysis.totalPredictions
        dominantDirection == ReduceDominant(analysis.directions, Directions[1], 2)
        consensusRatio == Ratio(analysis.directions[dominantDirection], total)
    IN  [hasConsensus |-> RatioGeqTenths(consensusRatio, threshold),
         direction |-> dominantDirection,
         strength |-> consensusRatio,
         threshold |-> threshold,
         supportingAgents |-> Ratio(consensusRatio.num * total, consensusRatio.den),
         averageConfidence |-> analysis.averageConfidence]

\* facilitateConsensus(task): reads task.data.predictions and
\* task.data.threshold (threshold || 0.8); throws a TypeError when task.data
\* is undefined.
facilitateConsensus(a, arg, t) ==
    IF ~arg.hasData
    THEN Throw("Cannot destructure property 'predictions' of 'task.data' as it is undefined.")
    ELSE LET consensus == calculateConsensus(analyzePredictions(arg.predictions),
                                             IF arg.threshold = 0 THEN 8 ELSE arg.threshold)
         IN  Return([agentId |-> a, deliberationType |-> "consensus", timestamp |-> t,
                     consensus |-> consensus, confidence |-> consensus.strength])

\* resolveDispute(task): reads task.data.conflictingPredictions and
\* task.data.evidence.
resolveDispute(a, arg, t) ==
    IF ~arg.hasData
    THEN Throw("Cannot destructure property 'conflictingPredictions' of 'task.data' as it is undefined.")
    ELSE IF ~arg.hasMembers
    THEN Throw("Cannot read properties of undefined (reading 'length')")
    ELSE Return([agentId |-> a, deliberationType |-> "dispute_resolution", timestamp |-> t])

\* deliberate(proposals, consensusThreshold): hands { proposals,
\* consensusThreshold } (an object without a data property) to the handler
\* of the agent's deliberationType.
deliberate(a, proposals, consensusThreshold, t) ==
    IF getType(a) = "facilitator"
    THEN facilitateConsensus(a, [hasData |-> FALSE, proposals |-> proposals,
                                 consensusThreshold |-> consensusThreshold], t)
    ELSE IF getType(a) = "resolver"
    THEN resolveDispute(a, [hasData |-> FALSE, hasMembers |-> FALSE,
                            proposals |-> proposals, threshold |-> consensusThreshold], t)
    ELSE Throw("Unknown deliberation type")

\* The try block of DeliberationAgent.processTask.
DeliberationBody(a, task, t) ==
    IF task.type = "deliberate"
    THEN LET o == deliberate(a,
                             IF HasProp(task, "proposals") THEN task.proposals ELSE <<>>,
                             IF HasProp(task, "consensus_threshold") /\ task.consensus_threshold # 0
                             THEN task.consensus_threshold ELSE 8,
                             t)
         IN  IF o.thrown THEN o
             ELSE Return([agentId |-> a, taskType |-> "deliberation", timestamp |-> t,
                          success |-> TRUE, result |-> o.val])
    ELSE IF task.type = "resolve_dispute"
    THEN LET o == resolveDispute(a, [hasData |-> task.shape \in {"malformed", "wellformed"},
                                     hasMembers |-> task.shape = "wellformed"], t)
         IN  IF o.thrown THEN o
             ELSE Return([agentId |-> a, taskType |-> "dispute_resolution", timestamp |-> t,
                          success |-> TRUE, resolution |-> o.val])
    ELSE Return([agentId |-> a, taskType |-> task.type, timestamp |-> t,
                 success |-> FALSE, error |-> "Unknown task type"])

\* DeliberationAgent.processTask: the try block, and the catch that turns a
\* throw into a failure Result.
DeliberationProcessTask(a, task, t) ==
    LET o == DeliberationBody(a, task, t)
    IN  IF o.thrown
        THEN Return([agentId |-> a, taskType |-> task.type, timestamp |-> t,
                     success |-> FALSE, error |-> o.msg])
        ELSE o

(***************************************************************************)
(* ExecutionAgent (src/agents/src/agents/ExecutionAgent.ts).                *)
(***************************************************************************)
\* assessRisk(prediction, marketData): confidence and volatility in
\* hundredths; `x || d` takes d when x is 0 or missing.  overall is kept
\* doubled (in two-hundredths) so that the halving stays exact.
assessRisk(confidence, volatility) ==
    LET confidenceRisk == 100 - (IF confidence = 0 THEN 50 ELSE confidence)
        volatilityRisk == 2 * (IF volatility = 0 THEN 20 ELSE volatility)
        overall2 == Min(200, confidenceRisk + volatilityRisk)
    IN  [overall2 |-> overall2,
         riskLevel |-> IF overall2 > 140 THEN "high"
                       ELSE IF overall2 > 80 THEN "medium" ELSE "low"]

\* generateRiskRecommendation(riskAssessment); maxExposure in tenths.
generateRiskRecommendation(riskAssessment) ==
    IF riskAssessment.riskLevel = "high" THEN [action |-> "reject", maxExposure |-> 0]
    ELSE IF riskAssessment.riskLevel = "medium"
    THEN [action |-> "proceed_with_caution", maxExposure |-> 5]
    ELSE [action |-> "proceed", maxExposure |-> 8]

\* manageRisk(task): destructures task.data, then reads prediction.confidence.
manageRisk(a, arg, t) ==
    IF arg.shape \in {"absent", "nodata"}
    THEN Throw("Cannot destructure property 'prediction' of 'task.data' as it is undefined.")
    ELSE IF arg.shape = "malformed"
    THEN Throw("Cannot read properties of undefined (reading 'confidence')")
    ELSE LET riskAssessment == assessRisk(arg.confidence, arg.volatility)
         IN  Return([agentId |-> a, executionType |-> "risk_management", timestamp |-> t,
                     riskAssessment |-> riskAssessment,
                     recommendation |-> generateRiskRecommendation(riskAssessment)])

\* executeCrossChain(task): destructures task.data; missing members only make
\* the plan's fields undefined / NaN.
executeCrossChain(a, arg, t) ==
    IF arg.shape \in {"absent", "nodata"}
    THEN Throw("Cannot destructure property 'sourceChain' of 'task.data' as it is undefined.")
    ELSE Return([agentId |-> a, executionType |-> "cross_chain", timestamp |-> t,
                 status |-> "planned"])

\* protectFromMEV(task): destructures task.data, then reads transaction.amount.
protectFromMEV(a, arg, t) ==
    IF arg.shape \in {"absent", "nodata"}
    THEN Throw("Cannot destructure property 'transaction' of 'task.data' as it is undefined.")
    ELSE IF arg.shape = "malformed"
    THEN Throw("Cannot read properties of undefined (reading 'amount')")
    ELSE Return([agentId |-> a, executionType |-> "mev_protection", timestamp |-> t])

\* execute(details): dispatch on the agent's executionType.
execute(a, arg, t) ==
    IF getType(a) = "risk_manager" THEN manageRisk(a, arg, t)
    ELSE IF getType(a) = "cross_chain" THEN executeCrossChain(a, arg, t)
    ELSE IF getType(a) = "mev_protector" THEN protectFromMEV(a, arg, t)
    ELSE Throw("Unknown execution type")

\* The try block of ExecutionAgent.processTask.
ExecutionBody(a, task, t) ==
    IF task.type = "execute_trade"
    THEN LET o == execute(a, task, t)
         IN  IF o.thrown THEN o
             ELSE Return([agentId |-> a, taskType |-> "execution", timestamp |-> t,
                          success |-> TRUE, result |-> o.val])
    ELSE IF task.type = "manage_risk"
    THEN LET o == manageRisk(a, task, t)
         IN  IF o.thrown THEN o
             ELSE Return([agentId |-> a, taskType |-> "risk_management", timestamp |-> t,
                          success |-> TRUE, result |-> o.val])
    ELSE IF task.type = "cross_chain_bridge"
    THEN LET o == executeCrossChain(a, task, t)
         IN  IF o.thrown THEN o
             ELSE Return([agentId |-> a, taskType |-> "cross_chain", timestamp |-> t,
                          success |-> TRUE, result |-> o.val])
    ELSE Return([agentId |-> a, taskType |-> task.type, timestamp |-> t,
                 success |-> FALSE, error |-> "Unknown task type"])

\* ExecutionAgent.processTask: the try block, and the catch that turns a throw
\* into a failure Result.
ExecutionProcessTaskNoCatch(a, task, t) == ExecutionBody(a, task, t)

ExecutionProcessTask(a, task, t) ==
    LET o == ExecutionBody(a, task, t)
    IN  IF o.thrown
        THEN Return([agentId |-> a, taskType |-> task.type, timestamp |-> t,
                     success |-> FALSE, error |-> o.msg])
        ELSE o

(***************************************************************************)
(* processTask of an agent, by the class it was constructed from.           *)
(***************************************************************************)
\* Whether the try block of processTask throws (the catch block then runs).
ThrowsInside(a, task, t) ==
    IF RoleOf(a) = "analyst" THEN AnalystBody(a, task, t).thrown
    ELSE IF RoleOf(a) = "deliberator" THEN DeliberationBody(a, task, t).thrown
    ELSE IF RoleOf(a) = "executor" THEN ExecutionBody(a, task, t).thrown
    ELSE FALSE

\* agent.processTask(task): what the call hands back to its caller.
ProcessTask(a, task, mem, n, t) ==
    IF RoleOf(a) = "collector" THEN CollectorProcessTask(a, task, mem, n, t)
    ELSE IF RoleOf(a) = "analyst" THEN AnalystProcessTask(a, task, t)
    ELSE IF RoleOf(a) = "deliberator" THEN DeliberationProcessTask(a, task, t)
    ELSE ExecutionProcessTask(a, task, t)

\* The agent's memory after the call: only a collector's collect_data stores.
MemoryAfterTask(a, task, mem, n, t) ==
    IF RoleOf(a) = "collector" THEN CollectorMemoryAfter(mem, a, task, n, t) ELSE mem

\* Memory entries the call stores.
StoresOfTask(a, task, n) ==
    IF RoleOf(a) = "collector" /\ task.type = "collect_data" THEN n ELSE 0

(***************************************************************************)
(* Inputs of the direct processTask calls.                                  *)
(***************************************************************************)
\* Longest proposals list / data array of a task.
MaxProposals == 1

\* Longest prediction list of a consensus computation.
MaxPreds == 3

SeqsUpTo(S, n) == UNION {[1..k -> S] : k \in 0..n}

\* prediction.prediction.direction (or none) and prediction.confidence in
\* tenths (0: missing).
PredictionValues == [direction : Range(Directions) \cup {Undefined}, confidence : {0, 9}]

\* The proposals and the data items handed to a direct call.
ProposalValues == [direction : {"bullish", Undefined}, confidence : {9}]

TaskItemKinds == {"price_up", "news_neg", "null"}

DirectTasks ==
    [type : {"collect_data", "build_consensus", "assess_risk", "data_collection",
             "analysis", "deliberate", "analyze_data"}]
    \cup [type : {"deliberate"}, proposals : SeqsUpTo(ProposalValues, MaxProposals),
          consensus_threshold : {0, 8}]
    \cup [type : {"analyze_data"}, items : SeqsUpTo(TaskItemKinds, MaxProposals)]
    \cup [type : {"resolve_dispute"}, shape : TaskShapes]
    \cup [type : {"execute_trade", "manage_risk", "cross_chain_bridge"},
          shape : {"absent", "nodata", "malformed"}]
    \cup [type : {"execute_trade", "manage_risk", "cross_chain_bridge"},
          shape : {"wellformed"}, confidence : {0, 90}, volatility : {10}]

(***************************************************************************)
(* State machine: processTask called on any agent with any task.            *)
(***************************************************************************)
NoCall == [agent |-> "none"]

InitAgents ==
    /\ now = 0
    /\ status = [a \in AllAgents |-> "inactive"]
    /\ startTime = [a \in AllAgents |-> 0]
    /\ lastActivityTime = [a \in AllAgents |-> 0]
    /\ errorCount = [a \in AllAgents |-> 0]
    /\ tasksCompleted = [a \in AllAgents |-> 0]
    /\ memory = [a \in AllAgents |-> <<>>]
    /\ stores = 0

\* A caller awaits agent.processTask(task).  None of the four processTask
\* implementations touches status, errorCount or tasksCompleted.
DirectProcessTask(a, task, n) ==
    /\ stores + StoresOfTask(a, task, n) <= MaxStores
    /\ lastCall' = [agent |-> a, task |-> task,
                    threwInside |-> ThrowsInside(a, task, now),
                    outcome |-> ProcessTask(a, task, memory[a], n, now)]
    /\ memory' = [memory EXCEPT ![a] = MemoryAfterTask(a, task, memory[a], n, now)]
    /\ stores' = stores + StoresOfTask(a, task, n)
    /\ UNCHANGED <<now, status, startTime, lastActivityTime, errorCount, tasksCompleted>>
    /\ UNCHANGED lifecycleVars

(***************************************************************************)
(* Agent lifecycle: BaseAgent.start / stop / recordError                    *)
(* (src/unnamed/part_010), DataCollectorAgent.start / stop / collectData    *)
(* (src/agents/dist/agents/DataCollectorAgent.js) and the coordinator's     *)
(* registerAgent / unregisterAgent (src/unnamed/part_007).                  *)
(***************************************************************************)
\* recordError calls made on one agent.
MaxErrors == 1

\* start() calls made on one agent.
MaxStarts == 2

\* stop() calls suspended at a time on one agent.
MaxStops == 1

\* Timer-driven collectData runs of one agent.
MaxCollections == 1

\* A collectData run of a sentiment collector whose provider calls end as
\* calls says: every item collected is stored in memory, and the try / catch
\* around the run lets nothing out.
CollectFromProvider(a, calls) ==
    LET data == collectSentimentData(calls)
    IN  /\ stores + Len(data) <= MaxStores
        /\ memory' = [memory EXCEPT ![a] = collectData(@, a, Len(data), now)]
        /\ stores' = stores + Len(data)
        /\ lastCall' = [agent |-> a, op |-> "collectData", calls |-> calls,
                        observations |-> data,
                        stored |-> Len(collectData(memory[a], a, Len(data), now))
                                   - Len(memory[a]),
                        raised |-> FALSE]
        /\ UNCHANGED <<now, status, startTime, lastActivityTime, errorCount, tasksCompleted>>
        /\ UNCHANGED lifecycleVars

(***************************************************************************)
(* AgentCoordinator (src/unnamed/part_007): the agents Map, an id-keyed     *)
(* sequence of agent objects in insertion order, and the mailboxes.        *)
(***************************************************************************)
\* The agent object index.ts constructs under the id a.
AgentObject(a) == [id |-> a, type |-> getType(a)]

IndexRegistry == [i \in DOMAIN AllAgentIds |-> AgentObject(AllAgentIds[i])]

MapHas(map, id) == \E k \in DOMAIN map : map[k].id = id

MapGet(map, id) == map[CHOOSE k \in DOMAIN map : map[k].id = id]

\* Map.prototype.set: a present key keeps its place and gets the new value.
MapSetAppend(map, agent) == Append(map, agent)

MapSet(map, agent) ==
    IF MapHas(map, agent.id)
    THEN [k \in DOMAIN map |-> IF map[k].id = agent.id THEN agent ELSE map[k]]
    ELSE Append(map, agent)

MapDelete(map, id) ==
    LET Other(agent) == agent.id # id
    IN  SelectSeq(map, Other)

\* this.messageQueues.set(id, []) and this.messageQueues.delete(id).
QueueSetKeep(queues, id) ==
    [b \in DOMAIN queues \cup {id} |-> IF b \in DOMAIN queues THEN queues[b] ELSE <<>>]

QueueSet(queues, id) ==
    [b \in DOMAIN queues \cup {id} |-> IF b = id THEN <<>> ELSE queues[b]]

QueueDelete(queues, id) == [b \in DOMAIN queues \ {id} |-> queues[b]]

\* No message has been sent.
NoBroadcast == [state |-> "idle"]

\* The gateway as index.ts leaves it: constructed with the default URL
\* (fallback mode) and connected before the coordinator is constructed.
ConnectedDatabase == [connected |-> TRUE, fallbackMode |-> TRUE]

InitMessaging ==
    /\ messageData = <<>>
    /\ messagesSent = 0
    /\ deliveries = <<>>
    /\ sending = {}
    /\ broadcast = NoBroadcast
    /\ coordinatorCalls = 0
    /\ database = ConnectedDatabase

\* registerAgent / unregisterAgent calls and sendMessage calls made in one
\* behaviour of the coordinator.
MaxCalls == 3

MaxMessages == 2

\* DatabaseManager.storeMessage keeps the last 1000 messages.
messageDataLimit == 1000

\* Agent objects handed to registerAgent: the first two collectors of
\* index.ts, and another agent of the first one's type under the second id.
CoordinatorIds == {CollectorIds[1], CollectorIds[2]}

CoordinatorAgents ==
    {AgentObject(CollectorIds[1]), AgentObject(CollectorIds[2]),
     [id |-> CollectorIds[2], type |-> CollectorTypes[1]]}

\* Senders: an agent that may be registered and one that never is.
SenderIds == {CollectorIds[1], CollectorIds[3]}

\* Recipients of the direct sendMessage calls: an id that is registered at
\* some times and not at others, next to the other id's mailbox.
RecipientIds == {CollectorIds[2]}

\* Types named in a broadcast.
BroadcastTypes == {agent.type : agent \in CoordinatorAgents}

\* The payload of the direct sendMessage calls, with a type of its own, and
\* the payload of the broadcasts, without one.
SentPayload == [type |-> "alert", text |-> "a"]

BroadcastPayload == [text |-> "b"]

\* registerAgent(agent) up to its return: both Maps are set, then
\* storeAgentRegistration writes the registration record, or throws
\* 'Database not connected' when the gateway is not connected, which rejects
\* registerAgent.
RegisterAgent(agent) ==
    /\ coordinatorCalls < MaxCalls
    /\ coordinatorCalls' = coordinatorCalls + 1
    /\ registry' = MapSet(registry, agent)
    /\ messageQueues' = QueueSet(messageQueues, agent.id)
    /\ dbStatus' = IF database.connected
                   THEN [dbStatus EXCEPT ![agent.id] = "registered"]
                   ELSE dbStatus
    /\ lastCall' = [agent |-> agent.id, op |-> "registerAgent", object |-> agent,
                    wasRegistered |-> MapHas(registry, agent.id),
                    raised |-> ~database.connected]
    /\ UNCHANGED <<now, agentVars, self, recoveryTimers, collectionInterval, liveIntervals,
                   intervalsSet, startCalls, startsAwaiting, stopsAwaiting, lastLifecycleCall,
                   collections>>
    /\ UNCHANGED <<messageData, messagesSent, deliveries, sending, broadcast, database>>

\* unregisterAgent(agentId): both Maps drop the id; updateAgentStatus changes
\* the record only if there is one, and throws when the gateway is not
\* connected.
UnregisterAgent(id) ==
    /\ coordinatorCalls < MaxCalls
    /\ coordinatorCalls' = coordinatorCalls + 1
    /\ registry' = MapDelete(registry, id)
    /\ messageQueues' = QueueDelete(messageQueues, id)
    /\ dbStatus' = IF database.connected
                   THEN [dbStatus EXCEPT ![id] = IF @ = "none" THEN @ ELSE "unregistered"]
                   ELSE dbStatus
    /\ lastCall' = [agent |-> id, op |-> "unregisterAgent",
                    wasRegistered |-> MapHas(registry, id),
                    raised |-> ~database.connected]
    /\ UNCHANGED <<now, agentVars, self, recoveryTimers, collectionInterval, liveIntervals,
                   intervalsSet, startCalls, startsAwaiting, stopsAwaiting, lastLifecycleCall,
                   collections>>
    /\ UNCHANGED <<messageData, messagesSent, deliveries, sending, broadcast, database>>

\* sendMessage's messageWithId; the id is unique per call, here its ordinal.
messageWithId(n, fromAgentId, toAgentId, message, t) ==
    [id |-> n, fromAgentId |-> fromAgentId, toAgentId |-> toAgentId,
     type |-> IF HasProp(message, "type") THEN message.type ELSE "generic",
     data |-> message, timestamp |-> t]

\* DatabaseManager.storeMessage: push {...message, storedAt}, keep the last 1000.
storeMessage(data, message, t) ==
    LET pushed == Append(data, [message |-> message, storedAt |-> t])
    IN  IF Len(pushed) > messageDataLimit
        THEN SubSeq(pushed, Len(pushed) - messageDataLimit + 1, Len(pushed))
        ELSE pushed

\* queue.push(messageWithId) on the recipient's mailbox.
PushMessageToAll(queues, to, m) == [b \in DOMAIN queues |-> Append(queues[b], m)]

PushMessageFirst(queues, to, m) == [queues EXCEPT ![to] = <<m>> \o @]

PushMessage(queues, to, m) == [queues EXCEPT ![to] = Append(@, m)]

\* sendMessage(from, to, message) up to its first suspension.  With a mailbox
\* for the recipient: push, call the registered agent's handleMessage (which
\* sets its lastActivityTime), and wait for it.  Without one: storeMessage is
\* called at once, and throws when the gateway is not connected.  by names the broadcast type, or "none" for a direct call;
\* inflight are the other sendMessage calls that are suspended.
Deliver(from, to, message, by, inflight) ==
    LET m == messageWithId(messagesSent + 1, from, to, message, now)
    IN  /\ messagesSent < MaxMessages
        /\ messagesSent' = messagesSent + 1
        /\ IF to \in DOMAIN messageQueues
           THEN /\ messageQueues' = PushMessage(messageQueues, to, m)
                /\ deliveries' = Append(deliveries,
                                        [message |-> m.id, agent |-> MapGet(registry, to),
                                         broadcast |-> by])
                /\ lastActivityTime' = [lastActivityTime EXCEPT ![to] = now]
                /\ sending' = inflight \cup {[message |-> m, pc |-> "handling", by |-> by]}
                /\ UNCHANGED messageData
           ELSE /\ messageData' = IF database.connected
                                   THEN storeMessage(messageData, m, now)
                                   ELSE messageData
                /\ sending' = IF by = "none" THEN inflight
                              ELSE inflight \cup
                                   {[message |-> m, by |-> by,
                                     pc |-> IF database.connected THEN "storing"
                                            ELSE "rejected"]}
                /\ UNCHANGED <<messageQueues, deliveries, lastActivityTime>>
        /\ UNCHANGED <<now, status, startTime, errorCount, tasksCompleted, memory, stores>>
        /\ UNCHANGED <<self, registry, dbStatus, recoveryTimers, collectionInterval,
                       liveIntervals, intervalsSet, startCalls, startsAwaiting, stopsAwaiting,
                       lastLifecycleCall, collections, coordinatorCalls, database>>

\* A caller calls coordinator.sendMessage(from, to, message).
SendMessage(from, to, message) ==
    /\ Deliver(from, to, message, "none", sending)
    /\ lastCall' = [agent |-> to, op |-> "sendMessage", call |-> messagesSent + 1,
                    raised |-> to \notin DOMAIN messageQueues /\ ~database.connected]
    /\ UNCHANGED broadcast

\* sendMessage resumed after handleMessage: the message is persisted.  The
\* return of a direct call has no further effect here; a broadcast waits
\* for the return of its sendMessage.
SendPersists(s) ==
    /\ s \in sending
    /\ s.pc = "handling"
    /\ database.connected
    /\ messageData' = storeMessage(messageData, s.message, now)
    /\ sending' = IF s.by = "none" THEN sending \ {s}
                  ELSE (sending \ {s}) \cup {[s EXCEPT !.pc = "storing"]}
    /\ UNCHANGED <<now, lastCall, agentVars, lifecycleVars>>
    /\ UNCHANGED <<messagesSent, deliveries, broadcast, coordinatorCalls, database>>

\* sendMessage resumed after handleMessage with the gateway not connected:
\* storeMessage throws 'Database not connected', sendMessage rejects, and so
\* does the broadcastMessage that awaits it.
SendRejects(s) ==
    /\ s \in sending
    /\ \/ s.pc = "handling" /\ ~database.connected
       \/ s.pc = "rejected"
    /\ sending' = sending \ {s}
    /\ broadcast' = IF s.by = "none" THEN broadcast ELSE NoBroadcast
    /\ lastCall' = [agent |-> s.message.toAgentId,
                    op |-> IF s.by = "none" THEN "sendMessage" ELSE "broadcastMessage",
                    call |-> s.message.id, raised |-> TRUE]
    /\ UNCHANGED <<now, agentVars, lifecycleVars>>
    /\ UNCHANGED <<messageData, messagesSent, deliveries, coordinatorCalls, database>>

\* DatabaseManager.connect(): nothing when connected; in fallback mode the
\* gateway is connected at once; otherwise the pool is queried, and a failure
\* switches to fallback mode and connects all the same.
Connect(queryOk) ==
    /\ database' = IF database.connected THEN database
                   ELSE IF database.fallbackMode \/ queryOk
                        THEN [database EXCEPT !.connected = TRUE]
                        ELSE [connected |-> TRUE, fallbackMode |-> TRUE]
    /\ lastCall' = [agent |-> "database", op |-> "connect"]
    /\ UNCHANGED <<now, agentVars, lifecycleVars>>
    /\ UNCHANGED <<messageData, messagesSent, deliveries, sending, broadcast, coordinatorCalls>>

\* DatabaseManager.disconnect(): nothing when not connected; otherwise the
\* gateway is marked not connected, unless pool.end() throws.
Disconnect(endOk) ==
    /\ database' = IF database.connected /\ (database.fallbackMode \/ endOk)
                   THEN [database EXCEPT !.connected = FALSE]
                   ELSE database
    /\ lastCall' = [agent |-> "database", op |-> "disconnect"]
    /\ UNCHANGED <<now, agentVars, lifecycleVars>>
    /\ UNCHANGED <<messageData, messagesSent, deliveries, sending, broadcast, coordinatorCalls>>

\* DatabaseManager.close(): when connected, the gateway is marked not
\* connected and agentData, memoryData and messageData are emptied.
Close ==
    /\ database' = [database EXCEPT !.connected = FALSE]
    /\ messageData' = IF database.connected THEN <<>> ELSE messageData
    /\ dbStatus' = IF database.connected THEN [a \in DOMAIN dbStatus |-> "none"] ELSE dbStatus
    /\ lastCall' = [agent |-> "database", op |-> "close"]
    /\ UNCHANGED <<now, agentVars, self, registry, messageQueues, recoveryTimers,
                   collectionInterval, liveIntervals, intervalsSet, startCalls,
                   startsAwaiting, stopsAwaiting, lastLifecycleCall, collections>>
    /\ UNCHANGED <<messagesSent, deliveries, sending, broadcast, coordinatorCalls>>

\* The for loop of broadcastMessage from the targets left, up to the next
\* await: targets with the sender's id are skipped, the first other one is
\* sent to by id; with none left the broadcast is over.
BroadcastLoop(from, type, message, targets, inflight) ==
    LET NotSender(agent) == agent.id # from
        others == SelectSeq(targets, NotSender)
    IN  IF others = <<>>
        THEN /\ broadcast' = NoBroadcast
             /\ sending' = inflight
             /\ UNCHANGED <<now, agentVars, lifecycleVars>>
             /\ UNCHANGED <<messageData, messagesSent, deliveries, coordinatorCalls, database>>
        ELSE /\ Deliver(from, Head(others).id, message, type, inflight)
             /\ broadcast' = [state |-> "awaiting", from |-> from, type |-> type,
                              message |-> message, targets |-> Tail(others)]

\* broadcastMessage(from, targetType, message): the targets are the agents of
\* the type registered now, in Map order.
BroadcastMessage(from, type, message) ==
    /\ broadcast = NoBroadcast
    /\ messagesSent < MaxMessages
    /\ LET OfType(agent) == agent.type = type
       IN  BroadcastLoop(from, type, message, SelectSeq(registry, OfType), sending)
    /\ lastCall' = [agent |-> from, op |-> "broadcastMessage"]

\* The sendMessage a broadcast awaits returns, and the loop goes on.
BroadcastResumes(s) ==
    /\ s \in sending
    /\ s.pc = "storing"
    /\ BroadcastLoop(broadcast.from, broadcast.type, broadcast.message, broadcast.targets,
                     sending \ {s})
    /\ UNCHANGED lastCall

IsCollector(a) == RoleOf(a) = "collector"

\* index.ts constructs the agents and registers each with the coordinator.
InitLifecycle ==
    /\ registry = IndexRegistry
    /\ messageQueues = [a \in AllAgents |-> <<>>]
    /\ dbStatus = [a \in AllAgents |-> "registered"]
    /\ recoveryTimers = [a \in AllAgents |-> 0]
    /\ collectionInterval = [a \in AllAgents |-> 0]
    /\ liveIntervals = [a \in AllAgents |-> {}]
    /\ intervalsSet = [a \in AllAgents |-> 0]
    /\ startCalls = [a \in AllAgents |-> 0]
    /\ startsAwaiting = [a \in AllAgents |-> 0]
    /\ stopsAwaiting = [a \in AllAgents |-> 0]
    /\ lastLifecycleCall = [a \in AllAgents |-> "none"]
    /\ collections = [a \in AllAgents |-> 0]
    /\ InitMessaging

\* start() as it would be if it also reset the error counter.
StartCallFresh(a) ==
    /\ startCalls[a] < MaxStarts
    /\ startCalls' = [startCalls EXCEPT ![a] = @ + 1]
    /\ status' = [status EXCEPT ![a] = "active"]
    /\ startTime' = [startTime EXCEPT ![a] = now]
    /\ lastActivityTime' = [lastActivityTime EXCEPT ![a] = now]
    /\ errorCount' = [errorCount EXCEPT ![a] = 0]
    /\ registry' = MapSet(registry, AgentObject(a))
    /\ messageQueues' = QueueSet(messageQueues, a)
    /\ startsAwaiting' = [startsAwaiting EXCEPT ![a] = @ + 1]
    /\ lastLifecycleCall' = [lastLifecycleCall EXCEPT ![a] = "start"]
    /\ UNCHANGED <<now, tasksCompleted, memory, stores, lastCall, self, dbStatus,
                   recoveryTimers, collectionInterval, liveIntervals, intervalsSet,
                   stopsAwaiting, collections>>

\* start() up to its first suspension: DataCollectorAgent.start awaits
\* super.start(), which sets the status and the times and runs
\* coordinator.registerAgent up to its await of the persistence write.
StartCall(a) ==
    /\ startCalls[a] < MaxStarts
    /\ startCalls' = [startCalls EXCEPT ![a] = @ + 1]
    /\ status' = [status EXCEPT ![a] = "active"]
    /\ startTime' = [startTime EXCEPT ![a] = now]
    /\ lastActivityTime' = [lastActivityTime EXCEPT ![a] = now]
    /\ registry' = MapSet(registry, AgentObject(a))
    /\ messageQueues' = QueueSet(messageQueues, a)
    /\ startsAwaiting' = [startsAwaiting EXCEPT ![a] = @ + 1]
    /\ lastLifecycleCall' = [lastLifecycleCall EXCEPT ![a] = "start"]
    /\ UNCHANGED <<now, errorCount, tasksCompleted, memory, stores, lastCall, self, dbStatus,
                   recoveryTimers, collectionInterval, liveIntervals, intervalsSet,
                   stopsAwaiting, collections>>

\* start() resumed: the registration is persisted; a collector then sets its
\* interval timer (overwriting this.collectionInterval) and runs the initial
\* collectData, whose provider call returned n items.
StartResume(a, n) ==
    /\ startsAwaiting[a] > 0
    /\ startsAwaiting' = [startsAwaiting EXCEPT ![a] = @ - 1]
    /\ dbStatus' = [dbStatus EXCEPT ![a] = "registered"]
    /\ IF IsCollector(a)
       THEN /\ stores + n <= MaxStores
            /\ intervalsSet' = [intervalsSet EXCEPT ![a] = @ + 1]
            /\ collectionInterval' = [collectionInterval EXCEPT ![a] = intervalsSet[a] + 1]
            /\ liveIntervals' = [liveIntervals EXCEPT ![a] = @ \cup {intervalsSet[a] + 1}]
            /\ memory' = [memory EXCEPT ![a] = collectData(@, a, n, now)]
            /\ stores' = stores + n
       ELSE /\ n = 0
            /\ UNCHANGED <<intervalsSet, collectionInterval, liveIntervals, memory, stores>>
    /\ UNCHANGED <<startCalls, now, status, startTime, lastActivityTime, errorCount, tasksCompleted,
                   lastCall, self, registry, messageQueues, recoveryTimers, stopsAwaiting,
                   lastLifecycleCall, collections>>

\* stop() up to its first suspension: a collector clears the timer that
\* this.collectionInterval names, then BaseAgent.stop sets the status and runs
\* coordinator.unregisterAgent up to its await of the persistence write.
StopCall(a) ==
    /\ stopsAwaiting[a] < MaxStops
    /\ liveIntervals' = [liveIntervals EXCEPT ![a] =
                            IF IsCollector(a) /\ collectionInterval[a] # 0
                            THEN @ \ {collectionInterval[a]} ELSE @]
    /\ status' = [status EXCEPT ![a] = "inactive"]
    /\ registry' = MapDelete(registry, a)
    /\ messageQueues' = QueueDelete(messageQueues, a)
    /\ stopsAwaiting' = [stopsAwaiting EXCEPT ![a] = @ + 1]
    /\ lastLifecycleCall' = [lastLifecycleCall EXCEPT ![a] = "stop"]
    /\ UNCHANGED <<startCalls, now, startTime, lastActivityTime, errorCount, tasksCompleted, memory,
                   stores, lastCall, self, dbStatus, recoveryTimers, collectionInterval,
                   intervalsSet, startsAwaiting, collections>>

\* stop() resumed: the status update is persisted and stop() returns.
StopReturn(a) ==
    /\ stopsAwaiting[a] > 0
    /\ stopsAwaiting' = [stopsAwaiting EXCEPT ![a] = @ - 1]
    /\ dbStatus' = [dbStatus EXCEPT ![a] = "unregistered"]
    /\ UNCHANGED <<startCalls, now, status, startTime, lastActivityTime, errorCount, tasksCompleted,
                   memory, stores, lastCall, self, registry, messageQueues, recoveryTimers,
                   collectionInterval, liveIntervals, intervalsSet, startsAwaiting,
                   lastLifecycleCall, collections>>

\* BaseAgent.recordError(error): count, flip to error, arm the recovery timer.
recordError(a) ==
    /\ errorCount[a] < MaxErrors
    /\ errorCount' = [errorCount EXCEPT ![a] = @ + 1]
    /\ status' = [status EXCEPT ![a] = "error"]
    /\ lastActivityTime' = [lastActivityTime EXCEPT ![a] = now]
    /\ recoveryTimers' = [recoveryTimers EXCEPT ![a] = @ + 1]
    /\ UNCHANGED <<startCalls, now, startTime, tasksCompleted, memory, stores, lastCall, self, registry,
                   messageQueues, dbStatus, collectionInterval, liveIntervals, intervalsSet,
                   startsAwaiting, stopsAwaiting, lastLifecycleCall, collections>>

\* The callback recordError hands to setTimeout:
\* if (this.status === 'error') this.status = 'active'.
RecoverStatusNever(s) == s

RecoverStatus(s) == IF s = "error" THEN "active" ELSE s

\* A recovery timer fires.
RecoveryTimerFires(a) ==
    /\ recoveryTimers[a] > 0
    /\ recoveryTimers' = [recoveryTimers EXCEPT ![a] = @ - 1]
    /\ status' = [status EXCEPT ![a] = RecoverStatus(@)]
    /\ UNCHANGED <<startCalls, now, startTime, lastActivityTime, errorCount, tasksCompleted, memory,
                   stores, lastCall, self, registry, messageQueues, dbStatus,
                   collectionInterval, liveIntervals, intervalsSet, startsAwaiting,
                   stopsAwaiting, lastLifecycleCall, collections>>

\* An interval timer of a collector fires: collectData runs, the provider
\* call returns n items and each is stored in memory.
IntervalFires(a, id, n) ==
    /\ id \in liveIntervals[a]
    /\ collections[a] < MaxCollections
    /\ stores + n <= MaxStores
    /\ collections' = [collections EXCEPT ![a] = @ + 1]
    /\ memory' = [memory EXCEPT ![a] = collectData(@, a, n, now)]
    /\ stores' = stores + n
    /\ UNCHANGED <<startCalls, now, status, startTime, lastActivityTime, errorCount, tasksCompleted,
                   lastCall, self, registry, messageQueues, dbStatus, recoveryTimers,
                   collectionInterval, liveIntervals, intervalsSet, startsAwaiting,
                   stopsAwaiting, lastLifecycleCall>>

\* Time passes.
AdvanceClock ==
    /\ now < MaxTime
    /\ now' = now + 1
    /\ UNCHANGED <<status, startTime, lastActivityTime, errorCount, tasksCompleted, memory,
                   stores, lastCall>>
    /\ UNCHANGED lifecycleVars

(***************************************************************************)
(* Health and metrics: BaseAgent.isHealthy / getMetrics                     *)
(* (src/unnamed/part_010) and AgentCoordinator.healthCheck                  *)
(* (src/unnamed/part_007).                                                  *)
(***************************************************************************)
\* const maxInactivityTime = 300000; // 5 minutes
maxInactivityTime == 300000

\* The instants the clock is read at after time 0: just before the
\* inactivity limit of an agent last active at 0, and at that limit.
ClockValues == {maxInactivityTime - 1, maxInactivityTime}

\* isHealthy() on an agent of status s, last active at last, called at t.
isHealthyInclusive(s, last, t) == s = "active" /\ t - last <= maxInactivityTime

isHealthy(s, last, t) == s = "active" /\ t - last < maxInactivityTime

\* getMetrics() of agent a (performanceScore, a function of the other
\* fields and the clock, is left out).
getMetrics(a) ==
    [id |-> a, type |-> getType(a), status |-> status[a],
     uptime |-> IF startTime[a] > 0 THEN now - startTime[a] ELSE 0,
     tasksCompleted |-> tasksCompleted[a],
     lastActivityTime |-> lastActivityTime[a],
     errorCount |-> errorCount[a]]

\* healthCheck(): healthRatio = totalAgents > 0 ? healthyAgents / totalAgents
\* : 0, and the result is healthRatio > 0.8.  The quotient of two integers
\* compares with 0.8 as 5 * healthyAgents does with 4 * totalAgents: the
\* correctly rounded quotient of h / t with 5h = 4t is the double 0.8 reads as.
healthCheck(agentMap) ==
    LET totalAgents == Len(agentMap)
        healthyAgents ==
            Cardinality({k \in DOMAIN agentMap :
                isHealthy(status[agentMap[k].id], lastActivityTime[agentMap[k].id], now)})
    IN  [healthyAgents |-> healthyAgents, totalAgents |-> totalAgents,
         result |-> totalAgents > 0 /\ 5 * healthyAgents > 4 * totalAgents]

\* A caller calls agent.isHealthy().
IsHealthyCall(a) ==
    /\ lastCall' = [agent |-> a, op |-> "isHealthy", status |-> status[a],
                    elapsed |-> now - lastActivityTime[a],
                    result |-> isHealthy(status[a], lastActivityTime[a], now)]
    /\ UNCHANGED <<now, agentVars, lifecycleVars>>

\* A caller calls agent.getMetrics().
GetMetricsCall(a) ==
    /\ lastCall' = [agent |-> a, op |-> "getMetrics", metrics |-> getMetrics(a)]
    /\ UNCHANGED <<now, agentVars, lifecycleVars>>

\* A caller calls coordinator.healthCheck().
HealthCheckCall ==
    /\ lastCall' = [agent |-> "coordinator", op |-> "healthCheck",
                    check |-> healthCheck(registry)]
    /\ UNCHANGED <<now, agentVars, lifecycleVars>>

\* Time passes up to one of the instants the clock is read at.
TimePasses(t) ==
    /\ t \in ClockValues
    /\ t > now
    /\ now' = t
    /\ UNCHANGED <<lastCall, agentVars, lifecycleVars>>

(***************************************************************************)
(* SwarmOrchestrator (src/agents/src/agents/ExecutionAgent.ts, lines        *)
(* 614-933): the task queue and the market_prediction pipeline.             *)
(***************************************************************************)
\* addTask calls made in one behaviour.
MaxTasks == 1

\* this.agents, as index.ts builds it.
dataCollectors == CollectorIds

analysts == AnalystIds

deliberation == DeliberationIds

execution == ExecutionIds

\* The SwarmAgents index.ts hands to the constructor.
IndexAgents ==
    [dataCollectors |-> dataCollectors, analysts |-> analysts,
     deliberation |-> deliberation, execution |-> execution]

\* addTask calls made in one behaviour of an orchestrator over fewer agents.
MaxQueued == 2

TaskIds == 1..(IF MaxTasks > MaxQueued THEN MaxTasks ELSE MaxQueued)

OrchestratorTaskTypes == {"market_prediction", "data_collection", "analysis", "other"}

\* A processTask call of a stage that has not been started / has not settled.
NotStarted == [state |-> "not_started"]

Pending == [state |-> "pending"]

\* What a stage's map callback yields when processTask rejects.
Null == [state |-> "null"]

\* try { return await agent.processTask(task) } catch { return null }
OrNull(outcome) == IF outcome.thrown THEN Null ELSE outcome.val

\* Promise.all over a stage's calls: resolved once every call has settled.
JoinedAny(results) == \E a \in DOMAIN results : results[a] \notin {NotStarted, Pending}

Joined(results) == \A a \in DOMAIN results : results[a] \notin {NotStarted, Pending}

\* results.filter(result => result !== null), in the order of the agents.
RECURSIVE FilterNonNull(_, _)
FilterNonNull(ids, results) ==
    IF ids = <<>> THEN <<>>
    ELSE (IF results[Head(ids)] \in {Null, NotStarted, Pending}
          THEN <<>> ELSE <<results[Head(ids)]>>)
         \o FilterNonNull(Tail(ids), results)

\* array.find(agent => agent.getType() === type): the first such agent, or
\* "none".
RECURSIVE FindByType(_, _)
FindByType(ids, type) ==
    IF ids = <<>> THEN "none"
    ELSE IF getType(Head(ids)) = type THEN Head(ids)
    ELSE FindByType(Tail(ids), type)

\* JavaScript truthiness of a property value that is a boolean or undefined.
Truthy(v) == v = "true"

\* result.hasConsensus as the orchestrator reads it: a top-level property of
\* what the facilitator's processTask returned.
HasConsensusOf(result) ==
    IF HasProp(result, "hasConsensus")
    THEN (IF result.hasConsensus THEN "true" ELSE "false")
    ELSE Undefined

\* if (consensus.hasConsensus) in processMarketPredictionTask.
ShouldExecuteAlways(consensus) == TRUE

ShouldExecute(consensus) == Truthy(HasConsensusOf(consensus))

\* The catch of SwarmOrchestrator.processTask: an exception thrown while the
\* task is processed is logged.  Left uncaught it would reject the promise of
\* the interval callback, which nothing handles.
OutcomeOfUncaught(thrown) == IF thrown THEN "uncaught" ELSE "completed"

OutcomeOf(thrown) == IF thrown THEN "failed" ELSE "completed"

\* An unhandled rejection ends the process.
ProcessAlive == \A id \in TaskIds : run[id].outcome # "uncaught"

\* this.taskQueue.shift(): the first task and the queue without it.
ShiftLast(queue) == [task |-> queue[Len(queue)], rest |-> SubSeq(queue, 1, Len(queue) - 1)]

ShiftKeep(queue) == [task |-> Head(queue), rest |-> queue]

Shift(queue) == [task |-> Head(queue), rest |-> Tail(queue)]

\* dispatches counts the processTask(task) calls made for the task;
\* failuresBefore the tasks whose processing had failed when it was dequeued.
NoRun ==
    [pc |-> "none", type |-> "none", dispatches |-> 0, failuresBefore |-> 0,
     collected |-> [a \in AllAgents |-> NotStarted],
     dataCollection |-> <<>>,
     analyzed |-> [a \in AllAgents |-> NotStarted],
     analysisResults |-> <<>>,
     consensus |-> NotStarted,
     riskAssessment |-> NotStarted,
     outcome |-> "none"]

\* The orchestrator as constructed: not running, no timer set.
InitRun ==
    /\ isRunning = FALSE
    /\ processInterval = 0
    /\ timers = [process |-> {}, created |-> 0, health |-> 0, demo |-> 0]
    /\ control = [op |-> "idle", cursor |-> 0, last |-> "none"]

\* The orchestrator once its first start() has returned: running, with the
\* drain timer, the health timer and the demo timer set.
InitRunStarted ==
    /\ isRunning = TRUE
    /\ processInterval = 1
    /\ timers = [process |-> {1}, created |-> 1, health |-> 1, demo |-> 1]
    /\ control = [op |-> "idle", cursor |-> 0, last |-> "start"]

\* new SwarmOrchestrator(coordinator, swarmAgents).
InitOrchestratorOver(swarmAgents) ==
    /\ taskQueue = <<>>
    /\ tasksAdded = 0
    /\ run = [id \in TaskIds |-> NoRun]
    /\ agents = swarmAgents

InitOrchestrator == InitOrchestratorOver(IndexAgents)

\* addTask(task): push to the queue; at most bound calls in a behaviour.
addTaskUpTo(type, bound) ==
    /\ tasksAdded < bound
    /\ tasksAdded' = tasksAdded + 1
    /\ taskQueue' = Append(taskQueue, [id |-> tasksAdded + 1, type |-> type])
    /\ run' = [run EXCEPT ![tasksAdded + 1].pc = "queued", ![tasksAdded + 1].type = type]
    /\ UNCHANGED runVars
    /\ UNCHANGED <<now, lastCall, agents>>
    /\ UNCHANGED agentVars
    /\ UNCHANGED lifecycleVars

addTask(type) == addTaskUpTo(type, MaxTasks)

\* The setInterval callback of startTaskProcessing with a non-empty queue:
\* shift one task and call processTask(task).  A market_prediction task
\* starts collectMarketData, which calls processTask of every collector; a
\* data_collection / analysis task hands the task itself to every collector /
\* analyst, whose processTask answers 'Unknown task type' at once; any other
\* type is logged.
Tick ==
    /\ ProcessAlive
    /\ timers.process # {}
    /\ taskQueue # <<>>
    /\ LET task == Shift(taskQueue).task
           failed == Cardinality({id \in TaskIds : run[id].outcome = "failed"})
       IN  /\ taskQueue' = Shift(taskQueue).rest
           /\ IF task.type = "market_prediction"
              THEN run' = [run EXCEPT ![task.id].pc = "collecting",
                                      ![task.id].dispatches = @ + 1,
                                      ![task.id].failuresBefore = failed,
                                      ![task.id].collected =
                                          [a \in Range(agents.dataCollectors) |-> Pending]]
              ELSE run' = [run EXCEPT ![task.id].pc = "done",
                                      ![task.id].dispatches = @ + 1,
                                      ![task.id].failuresBefore = failed,
                                      ![task.id].outcome =
                                          IF task.type \in {"data_collection", "analysis"}
                                          THEN "completed" ELSE "unknown_type"]
    /\ UNCHANGED runVars
    /\ UNCHANGED <<now, lastCall, tasksAdded, agents>>
    /\ UNCHANGED agentVars
    /\ UNCHANGED lifecycleVars

\* A collector's processTask({type: 'collect_data'}) settles; its provider
\* call returned n items.
CollectorSettles(id, a, n) ==
    /\ run[id].collected[a] = Pending
    /\ stores + n <= MaxStores
    /\ LET task == [type |-> "collect_data"]
       IN  /\ run' = [run EXCEPT ![id].collected[a] =
                         OrNull(ProcessTask(a, task, memory[a], n, now))]
           /\ memory' = [memory EXCEPT ![a] = MemoryAfterTask(a, task, @, n, now)]
    /\ stores' = stores + n
    /\ UNCHANGED runVars
    /\ UNCHANGED <<now, lastCall, taskQueue, tasksAdded, agents, status, startTime,
                   lastActivityTime, errorCount, tasksCompleted>>
    /\ UNCHANGED lifecycleVars

\* collectMarketData's Promise.all resolves; analyzeMarketData calls
\* processTask of every analyst with the non-null collector results.
AnalysisStarts(id) ==
    /\ run[id].pc = "collecting"
    /\ Joined(run[id].collected)
    /\ run' = [run EXCEPT ![id].pc = "analyzing",
                          ![id].dataCollection =
                              FilterNonNull(agents.dataCollectors, run[id].collected),
                          ![id].analyzed = [a \in Range(agents.analysts) |-> Pending]]
    /\ UNCHANGED runVars
    /\ UNCHANGED <<now, lastCall, taskQueue, tasksAdded, agents>>
    /\ UNCHANGED agentVars
    /\ UNCHANGED lifecycleVars

\* The data array an analyst finds in the task: task.data.dataCollection,
\* whose items are collector Results.
AnalysisTask(dataCollection) ==
    [type |-> "analyze_data", items |-> [i \in DOMAIN dataCollection |-> "result"]]

\* An analyst's processTask({type: 'analyze_data'}) settles.
AnalystSettles(id, a) ==
    /\ run[id].analyzed[a] = Pending
    /\ run' = [run EXCEPT ![id].analyzed[a] =
                  OrNull(ProcessTask(a, AnalysisTask(run[id].dataCollection),
                                     memory[a], 0, now))]
    /\ UNCHANGED runVars
    /\ UNCHANGED <<now, lastCall, taskQueue, tasksAdded, agents>>
    /\ UNCHANGED agentVars
    /\ UNCHANGED lifecycleVars

\* analyzeMarketData's Promise.all resolves; buildConsensus finds the
\* facilitator and calls its processTask({type: 'build_consensus'}).  Without
\* a facilitator it throws, and the orchestrator's processTask logs that.
DeliberationStarts(id) ==
    /\ run[id].pc = "analyzing"
    /\ Joined(run[id].analyzed)
    /\ IF FindByType(agents.deliberation, "facilitator") = "none"
       THEN run' = [run EXCEPT ![id].pc = "done", ![id].outcome = OutcomeOf(TRUE),
                               ![id].analysisResults =
                                   FilterNonNull(agents.analysts, run[id].analyzed)]
       ELSE run' = [run EXCEPT ![id].pc = "deliberating",
                               ![id].consensus = Pending,
                               ![id].analysisResults =
                                   FilterNonNull(agents.analysts, run[id].analyzed)]
    /\ UNCHANGED runVars
    /\ UNCHANGED <<now, lastCall, taskQueue, tasksAdded, agents>>
    /\ UNCHANGED agentVars
    /\ UNCHANGED lifecycleVars

\* executeMarketDecision(consensus, task): the risk manager's
\* processTask({type: 'assess_risk'}), then the log line that reads
\* riskAssessment.recommendation.action.
RiskAssessmentOf(consensus) ==
    IF ShouldExecute(consensus) /\ FindByType(agents.execution, "risk_manager") # "none"
    THEN ProcessTask(FindByType(agents.execution, "risk_manager"), [type |-> "assess_risk"],
                     <<>>, 0, now).val
    ELSE NotStarted

\* The facilitator's processTask returns; on a truthy consensus.hasConsensus
\* executeMarketDecision runs (the risk manager's processTask does no I/O and
\* settles in the same turn); the orchestrator's processTask call ends.
FacilitatorReturns(id) ==
    /\ run[id].pc = "deliberating"
    /\ LET facilitator == FindByType(agents.deliberation, "facilitator")
           consensus == ProcessTask(facilitator, [type |-> "build_consensus"],
                                    memory[facilitator], 0, now).val
           riskAssessment == RiskAssessmentOf(consensus)
       IN  run' = [run EXCEPT ![id].pc = "done",
                              ![id].consensus = consensus,
                              ![id].riskAssessment = riskAssessment,
                              ![id].outcome =
                                  OutcomeOf(riskAssessment # NotStarted
                                            /\ ~HasProp(riskAssessment, "recommendation"))]
    /\ UNCHANGED runVars
    /\ UNCHANGED <<now, lastCall, taskQueue, tasksAdded, agents>>
    /\ UNCHANGED agentVars
    /\ UNCHANGED lifecycleVars

(***************************************************************************)
(* The facilitator's consensus computation as a pure function.              *)
(***************************************************************************)
NotComputed == [state |-> "not_computed"]

NoInput == [fn |-> "none"]

InitFn ==
    /\ fnInput = NoInput
    /\ fnOutput = NotComputed

\* calculateConsensus(analyzePredictions(predictions), threshold)
ComputeConsensus ==
    /\ fnInput.fn = "consensus"
    /\ fnOutput = NotComputed
    /\ fnOutput' = calculateConsensus(analyzePredictions(fnInput.predictions),
                                      fnInput.threshold)
    /\ UNCHANGED fnInput

(***************************************************************************)
(* The resolver's decision as a pure function                               *)
(* (src/agents/dist/agents/DeliberationAgent.js, lines 139-194).            *)
(* Weights are in tenths, ages in whole hours.                              *)
(***************************************************************************)
\* Longest evidence list.
MaxEvidence == 2

\* Evidence items: the source, and the age in hours read off the clock.
EvidenceValues == [source : {"onchain", "news", "social"}, ageHours : {0, 1, 24}]

\* calculateEvidenceWeight(evidence)
calculateEvidenceWeight(evidence) ==
    LET bySource == 5 + (IF evidence.source = "onchain" THEN 3 ELSE 0)
                      + (IF evidence.source = "news" THEN 2 ELSE 0)
                      + (IF evidence.source = "social" THEN 1 ELSE 0)
        byAge == IF evidence.ageHours < 1 THEN 2
                 ELSE IF evidence.ageHours < 24 THEN 1 ELSE 0
    IN  Min(10, bySource + byAge)

\* analyzeConflict's evidenceWeights[item.source] = weight, over the items
\* in order: a later item of a source overwrites the earlier one's weight.
evidenceWeights(evidence) ==
    {calculateEvidenceWeight(evidence[i]) :
        i \in {k \in DOMAIN evidence :
                  \A j \in DOMAIN evidence :
                      evidence[j].source = evidence[k].source => j <= k}}

\* makeResolutionDecision(resolution), from Object.values(evidenceWeights).
makeResolutionDecision(weights) ==
    LET hasStrongEvidence == \E weight \in weights : weight > 8
    IN  [resolution |-> IF hasStrongEvidence THEN "evidence_based" ELSE "majority_vote",
         confidence |-> IF hasStrongEvidence THEN 9 ELSE "by_severity"]

\* makeResolutionDecision(analyzeConflict(conflictingPredictions, evidence))
ComputeResolution ==
    /\ fnInput.fn = "resolution"
    /\ fnOutput = NotComputed
    /\ fnOutput' = makeResolutionDecision(evidenceWeights(fnInput.evidence))
    /\ UNCHANGED fnInput

(***************************************************************************)
(* SwarmOrchestrator.start / stop and the interval timers they set          *)
(* (src/agents/src/agents/ExecutionAgent.ts, lines 636-718 and 885-913).    *)
(* One caller awaits each start() and stop() before the next call.          *)
(***************************************************************************)
\* allAgents of startAllAgents / stopAllAgents.
allAgents == agents.dataCollectors \o agents.analysts \o agents.deliberation \o agents.execution

\* start() up to the first await of startAllAgents: isRunning = true.
start ==
    /\ control.op = "idle"
    /\ \A a \in Range(allAgents) : startCalls[a] < MaxStarts
    /\ isRunning' = TRUE
    /\ control' = [control EXCEPT !.op = "start", !.cursor = 1]
    /\ UNCHANGED <<now, lastCall, agentVars, lifecycleVars, taskQueue, tasksAdded, run, agents,
                   processInterval, timers>>

\* startAllAgents: await agent.start() of the next agent, up to the await
\* inside it.
startAllAgents(a) ==
    /\ control.op = "start"
    /\ control.cursor <= Len(allAgents)
    /\ a = allAgents[control.cursor]
    /\ startsAwaiting[a] = 0
    /\ StartCall(a)
    /\ UNCHANGED orchestratorVars

\* agent.start() returned: on to the next agent.
startAllAgentsResumes(a, n) ==
    /\ control.op = "start"
    /\ control.cursor <= Len(allAgents)
    /\ a = allAgents[control.cursor]
    /\ StartResume(a, n)
    /\ control' = [control EXCEPT !.cursor = @ + 1]
    /\ UNCHANGED <<taskQueue, tasksAdded, run, agents, isRunning, processInterval, timers>>

\* start() after startAllAgents: startTaskProcessing stores a new drain timer
\* in this.processInterval; startHealthMonitoring and
\* startDemoPredictionCycle set timers whose ids are not kept.
startReturns ==
    /\ control.op = "start"
    /\ control.cursor > Len(allAgents)
    /\ processInterval' = timers.created + 1
    /\ timers' = [process |-> timers.process \cup {timers.created + 1},
                  created |-> timers.created + 1,
                  health |-> timers.health + 1,
                  demo |-> timers.demo + 1]
    /\ control' = [op |-> "idle", cursor |-> 0, last |-> "start"]
    /\ UNCHANGED <<now, lastCall, agentVars, lifecycleVars, taskQueue, tasksAdded, run, agents,
                   isRunning>>

\* stop() up to the first await of stopAllAgents: isRunning = false and
\* clearInterval of the timer this.processInterval names.
stop ==
    /\ control.op = "idle"
    /\ isRunning' = FALSE
    /\ timers' = [timers EXCEPT !.process = IF processInterval # 0
                                            THEN @ \ {processInterval} ELSE @]
    /\ control' = [control EXCEPT !.op = "stop", !.cursor = 1]
    /\ UNCHANGED <<now, lastCall, agentVars, lifecycleVars, taskQueue, tasksAdded, run, agents,
                   processInterval>>

\* stopAllAgents: await agent.stop() of the next agent, up to the await
\* inside it.
stopAllAgents(a) ==
    /\ control.op = "stop"
    /\ control.cursor <= Len(allAgents)
    /\ a = allAgents[control.cursor]
    /\ stopsAwaiting[a] = 0
    /\ StopCall(a)
    /\ UNCHANGED orchestratorVars

\* agent.stop() returned: on to the next agent.
stopAllAgentsResumes(a) ==
    /\ control.op = "stop"
    /\ control.cursor <= Len(allAgents)
    /\ a = allAgents[control.cursor]
    /\ StopReturn(a)
    /\ control' = [control EXCEPT !.cursor = @ + 1]
    /\ UNCHANGED <<taskQueue, tasksAdded, run, agents, isRunning, processInterval, timers>>

\* stop() after stopAllAgents: coordinator.shutdown() finds no agent left in
\* its registry to stop, clears both maps and closes the gateway; stop()
\* returns.
stopReturns ==
    /\ control.op = "stop"
    /\ control.cursor > Len(allAgents)
    /\ registry = <<>>
    /\ registry' = <<>>
    /\ messageQueues' = <<>>
    /\ database' = [database EXCEPT !.connected = FALSE]
    /\ messageData' = IF database.connected THEN <<>> ELSE messageData
    /\ dbStatus' = IF database.connected THEN [a \in DOMAIN dbStatus |-> "none"] ELSE dbStatus
    /\ control' = [op |-> "idle", cursor |-> 0, last |-> "stop"]
    /\ UNCHANGED <<now, lastCall, agentVars, self, recoveryTimers, collectionInterval,
                   liveIntervals, intervalsSet, startCalls, startsAwaiting, stopsAwaiting,
                   lastLifecycleCall, collections>>
    /\ UNCHANGED <<messagesSent, deliveries, sending, broadcast, coordinatorCalls>>
    /\ UNCHANGED <<taskQueue, tasksAdded, run, agents, isRunning, processInterval, timers>>

\* The callback of startDemoPredictionCycle:
\* if (this.isRunning) this.addTask({type: 'market_prediction', ...}).
DemoCycleFires ==
    /\ timers.demo > 0
    /\ isRunning
    /\ addTask("market_prediction")

(***************************************************************************)
(* The PredictionMarket contract (src/unnamed/part_002, lines 17-745).      *)
(* Token amounts are in units of 10^12 wei.  A call that reverts changes    *)
(* nothing: the requires of a function are the guard of its action.  The    *)
(* setters of fees, limits and addresses, pause() and unpause(), and the    *)
(* functions that only read or emit, are left out.                          *)
(***************************************************************************)
\* Bets placed, predictions submitted per market and VRF requests made in
\* a behaviour.
MaxBets == 2

MaxAgentPredictions == 1

MaxRequests == 1

\* The ids createMarket hands out, and the block times of the calls.
MarketIds == {1}

BlockTimes == {0, 1}

Users == {"alice", "bob"}

Agents == {"agent"}

\* platformFee = 250 basis points; minBetAmount = 0.01 ether.
platformFee == 250

minBetAmount == 10000

maxBetAmount == 1000000000

\* The zero value of a Market, and a Market as createMarket writes it.
NoMarket ==
    [endTime |-> 0, resolutionTime |-> 0, resolved |-> FALSE, outcome |-> FALSE,
     totalYesAmount |-> 0, totalNoAmount |-> 0, totalVolume |-> 0, creatorFee |-> 0,
     active |-> FALSE]

NoPosition == [yesAmount |-> 0, noAmount |-> 0, claimed |-> FALSE]

\* The contract as deployed.
InitChain ==
    /\ markets = [m \in MarketIds |-> NoMarket]
    /\ nextMarketId = 1
    /\ positions = [m \in MarketIds |-> [u \in Users |-> NoPosition]]
    /\ agentPredictions = [m \in MarketIds |-> <<>>]
    /\ authorizedAgents = {}
    /\ agentReputation = [a \in Agents |-> 0]
    /\ paused = FALSE
    /\ tokenBalance = 0
    /\ blockTimestamp = 0
    /\ vrfRequestToMarketId = <<>>
    /\ vrfFulfilled = {}

\* createMarket(_question, _category, _endTime, _creatorFee)
createMarket(endTime, creatorFee) ==
    /\ nextMarketId \in MarketIds
    /\ endTime > blockTimestamp
    /\ creatorFee <= 1000
    /\ nextMarketId' = nextMarketId + 1
    /\ markets' = [markets EXCEPT ![nextMarketId] =
                      [NoMarket EXCEPT !.endTime = endTime, !.creatorFee = creatorFee,
                                       !.active = TRUE]]
    /\ UNCHANGED <<positions, agentPredictions, authorizedAgents, agentReputation, paused,
                   tokenBalance, blockTimestamp, vrfRequestToMarketId, vrfFulfilled>>

\* Bets placed so far, each of minBetAmount, counted from the volumes.
RECURSIVE VolumeFrom(_)
VolumeFrom(i) == IF i \notin MarketIds THEN 0 ELSE markets[i].totalVolume + VolumeFrom(i + 1)

BetsPlaced == VolumeFrom(1) \div minBetAmount

\* placeBet(_marketId, _side, _amount), called by user.
placeBet(user, marketId, side, amount) ==
    /\ BetsPlaced < MaxBets
    /\ ~paused
    /\ markets[marketId].active
    /\ blockTimestamp < markets[marketId].endTime
    /\ amount >= minBetAmount /\ amount <= maxBetAmount
    /\ tokenBalance' = tokenBalance + amount
    /\ positions' = [positions EXCEPT ![marketId][user] =
                        IF side THEN [@ EXCEPT !.yesAmount = @ + amount]
                                ELSE [@ EXCEPT !.noAmount = @ + amount]]
    /\ markets' = [markets EXCEPT ![marketId] =
                      IF side
                      THEN [@ EXCEPT !.totalYesAmount = @ + amount, !.totalVolume = @ + amount]
                      ELSE [@ EXCEPT !.totalNoAmount = @ + amount, !.totalVolume = @ + amount]]
    /\ UNCHANGED <<nextMarketId, agentPredictions, authorizedAgents, agentReputation, paused,
                   blockTimestamp, vrfRequestToMarketId, vrfFulfilled>>

\* submitAgentPrediction(_marketId, _prediction, _confidence, _reasoning)
submitAgentPrediction(agent, marketId, prediction, confidence) ==
    /\ Len(agentPredictions[marketId]) < MaxAgentPredictions
    /\ agent \in authorizedAgents
    /\ markets[marketId].active
    /\ blockTimestamp < markets[marketId].endTime
    /\ confidence <= 10000
    /\ agentPredictions' = [agentPredictions EXCEPT ![marketId] =
                               Append(@, [agent |-> agent, prediction |-> prediction,
                                          confidence |-> confidence])]
    /\ UNCHANGED <<markets, nextMarketId, positions, authorizedAgents, agentReputation, paused,
                   tokenBalance, blockTimestamp, vrfRequestToMarketId, vrfFulfilled>>

\* resolveMarket(_marketId, _outcome), called by the owner.
resolveMarket(marketId, outcome) ==
    /\ markets[marketId].active
    /\ blockTimestamp >= markets[marketId].endTime
    /\ ~markets[marketId].resolved
    /\ markets' = [markets EXCEPT ![marketId].resolved = TRUE,
                                  ![marketId].outcome = outcome,
                                  ![marketId].resolutionTime = blockTimestamp]
    /\ UNCHANGED <<nextMarketId, positions, agentPredictions, authorizedAgents, agentReputation,
                   paused, tokenBalance, blockTimestamp, vrfRequestToMarketId, vrfFulfilled>>

\* calculateWinnings(_marketId, _user)
calculateWinnings(marketId, user) ==
    LET market == markets[marketId]
        position == positions[marketId][user]
        winningPool == IF market.outcome THEN market.totalYesAmount ELSE market.totalNoAmount
        losingPool == IF market.outcome THEN market.totalNoAmount ELSE market.totalYesAmount
        userWinningBet == IF market.outcome THEN position.yesAmount ELSE position.noAmount
    IN  IF ~market.resolved \/ position.claimed THEN 0
        ELSE IF userWinningBet = 0 \/ winningPool = 0 THEN 0
        ELSE LET winningsFromLosingPool == (userWinningBet * losingPool) \div winningPool
                 totalFees == (winningsFromLosingPool * (platformFee + market.creatorFee))
                                  \div 10000
             IN  userWinningBet + winningsFromLosingPool - totalFees

\* claimWinnings(_marketId), called by user; safeTransfer reverts when the
\* contract holds less than the amount.
claimWinnings(user, marketId) ==
    /\ markets[marketId].resolved
    /\ ~positions[marketId][user].claimed
    /\ positions[marketId][user].yesAmount > 0 \/ positions[marketId][user].noAmount > 0
    /\ calculateWinnings(marketId, user) > 0
    /\ tokenBalance >= calculateWinnings(marketId, user)
    /\ positions' = [positions EXCEPT ![marketId][user].claimed = TRUE]
    /\ tokenBalance' = tokenBalance - calculateWinnings(marketId, user)
    /\ UNCHANGED <<markets, nextMarketId, agentPredictions, authorizedAgents, agentReputation,
                   paused, blockTimestamp, vrfRequestToMarketId, vrfFulfilled>>

\* performUpkeep(performData), callable by anyone, with one market id in
\* performData: _requestRandomResolution records the request.
performUpkeep(marketId) ==
    /\ Len(vrfRequestToMarketId) < MaxRequests
    /\ vrfRequestToMarketId' = Append(vrfRequestToMarketId, marketId)
    /\ UNCHANGED <<markets, nextMarketId, positions, agentPredictions, authorizedAgents,
                   agentReputation, paused, tokenBalance, blockTimestamp, vrfFulfilled>>

\* _getAgentConsensus(_marketId): weightedYes > weightedNo.
RECURSIVE WeightedVotes(_, _)
WeightedVotes(predictions, side) ==
    IF predictions = <<>> THEN 0
    ELSE (IF Head(predictions).prediction = side
          THEN agentReputation[Head(predictions).agent] * Head(predictions).confidence
          ELSE 0) + WeightedVotes(Tail(predictions), side)

getAgentConsensus(marketId) ==
    WeightedVotes(agentPredictions[marketId], TRUE)
        > WeightedVotes(agentPredictions[marketId], FALSE)

\* The test of fulfillRandomWords: if (!market.resolved && market.active).
ResolvableAnew(market) == market.active

Resolvable(market) == ~market.resolved /\ market.active

\* fulfillRandomWords(requestId, randomWords), called back by the VRF
\* coordinator once per request.
fulfillRandomWords(requestId, randomWord) ==
    /\ requestId \in DOMAIN vrfRequestToMarketId
    /\ requestId \notin vrfFulfilled
    /\ vrfFulfilled' = vrfFulfilled \cup {requestId}
    /\ LET marketId == vrfRequestToMarketId[requestId]
           randomOutcome == (randomWord % 2) = 1
           finalOutcome == IF Len(agentPredictions[marketId]) > 0
                           THEN getAgentConsensus(marketId) ELSE randomOutcome
       IN  /\ markets' = IF Resolvable(markets[marketId])
                         THEN [markets EXCEPT ![marketId].resolved = TRUE,
                                              ![marketId].outcome = finalOutcome,
                                              ![marketId].resolutionTime = blockTimestamp]
                         ELSE markets
           /\ lastCall' = [agent |-> "vrfCoordinator", op |-> "fulfillRandomWords",
                           marketId |-> marketId, finalOutcome |-> finalOutcome,
                           wasResolved |-> markets[marketId].resolved]
    /\ UNCHANGED <<nextMarketId, positions, agentPredictions, authorizedAgents, agentReputation,
                   paused, tokenBalance, blockTimestamp, vrfRequestToMarketId>>

\* setAgentAuthorization(_agent, _authorized), called by the owner.
setAgentAuthorization(agent, authorized) ==
    /\ authorizedAgents' = IF authorized THEN authorizedAgents \cup {agent}
                           ELSE authorizedAgents \ {agent}
    /\ agentReputation' = IF authorized /\ agentReputation[agent] = 0
                          THEN [agentReputation EXCEPT ![agent] = 5000]
                          ELSE agentReputation
    /\ UNCHANGED <<markets, nextMarketId, positions, agentPredictions, paused, tokenBalance,
                   blockTimestamp, vrfRequestToMarketId, vrfFulfilled>>

\* The stakes of the markets withdrawFees counts as locked.
RECURSIVE lockedAmount(_)
lockedAmount(i) ==
    IF i >= nextMarketId THEN 0
    ELSE (IF markets[i].active /\ ~markets[i].resolved
          THEN markets[i].totalYesAmount + markets[i].totalNoAmount ELSE 0)
         + lockedAmount(i + 1)

\* withdrawFees(), called by the owner: everything above the locked amount
\* goes to feeRecipient.
withdrawFees ==
    /\ LET availableFees == IF tokenBalance > lockedAmount(1)
                            THEN tokenBalance - lockedAmount(1) ELSE 0
       IN  tokenBalance' = IF availableFees > 0 THEN tokenBalance - availableFees
                           ELSE tokenBalance
    /\ UNCHANGED <<markets, nextMarketId, positions, agentPredictions, authorizedAgents,
                   agentReputation, paused, blockTimestamp, vrfRequestToMarketId, vrfFulfilled>>

\* pauseMarket(_marketId), called by the owner.
pauseMarket(marketId) ==
    /\ markets' = [markets EXCEPT ![marketId].active = FALSE]
    /\ UNCHANGED <<nextMarketId, positions, agentPredictions, authorizedAgents, agentReputation,
                   paused, tokenBalance, blockTimestamp, vrfRequestToMarketId, vrfFulfilled>>

\* A later block is mined.
BlockMined(t) ==
    /\ t \in BlockTimes
    /\ t > blockTimestamp
    /\ blockTimestamp' = t
    /\ UNCHANGED <<markets, nextMarketId, positions, agentPredictions, authorizedAgents,
                   agentReputation, paused, tokenBalance, vrfRequestToMarketId, vrfFulfilled>>

(***************************************************************************)
(* Specifications.                                                          *)
(***************************************************************************)
vars == <<now, lastCall, agentVars, lifecycleVars, orchestratorVars, fnVars, chainVars, messagingVars>>

\* The state index.ts leaves once orchestrator.start() has returned: every
\* agent started once, every collector with its interval timer set.
InitStarted ==
    /\ InitRunStarted
    /\ InitChain
    /\ now = 0
    /\ status = [a \in AllAgents |-> "active"]
    /\ startTime = [a \in AllAgents |-> 0]
    /\ lastActivityTime = [a \in AllAgents |-> 0]
    /\ errorCount = [a \in AllAgents |-> 0]
    /\ tasksCompleted = [a \in AllAgents |-> 0]
    /\ memory = [a \in AllAgents |-> <<>>]
    /\ stores = 0
    /\ registry = IndexRegistry
    /\ messageQueues = [a \in AllAgents |-> <<>>]
    /\ dbStatus = [a \in AllAgents |-> "registered"]
    /\ recoveryTimers = [a \in AllAgents |-> 0]
    /\ collectionInterval = [a \in AllAgents |-> IF IsCollector(a) THEN 1 ELSE 0]
    /\ liveIntervals = [a \in AllAgents |-> IF IsCollector(a) THEN {1} ELSE {}]
    /\ intervalsSet = [a \in AllAgents |-> IF IsCollector(a) THEN 1 ELSE 0]
    /\ startCalls = [a \in AllAgents |-> 1]
    /\ startsAwaiting = [a \in AllAgents |-> 0]
    /\ stopsAwaiting = [a \in AllAgents |-> 0]
    /\ lastLifecycleCall = [a \in AllAgents |-> "start"]
    /\ collections = [a \in AllAgents |-> 0]
    /\ InitMessaging

\* The orchestrator: tasks are added, the queue is drained, pipelines run.
Init ==
    /\ InitStarted
    /\ InitOrchestrator
    /\ InitFn
    /\ self = CollectorIds[1]
    /\ lastCall = NoCall

Next ==
    \/ \E type \in OrchestratorTaskTypes : addTask(type) /\ UNCHANGED <<fnVars, chainVars, messagingVars>>
    \/ Tick /\ UNCHANGED <<fnVars, chainVars, messagingVars>>
    \/ \E id \in 1..MaxTasks, a \in Range(dataCollectors), n \in 0..MaxItems :
          CollectorSettles(id, a, n) /\ UNCHANGED <<fnVars, chainVars, messagingVars>>
    \/ \E id \in 1..MaxTasks : AnalysisStarts(id) /\ UNCHANGED <<fnVars, chainVars, messagingVars>>
    \/ \E id \in 1..MaxTasks, a \in Range(analysts) : AnalystSettles(id, a) /\ UNCHANGED <<fnVars, chainVars, messagingVars>>
    \/ \E id \in 1..MaxTasks : DeliberationStarts(id) /\ UNCHANGED <<fnVars, chainVars, messagingVars>>
    \/ \E id \in 1..MaxTasks : FacilitatorReturns(id) /\ UNCHANGED <<fnVars, chainVars, messagingVars>>

Spec == Init /\ [][Next]_vars

\* Orchestrators constructed over fewer agents: one agent per stage; no
\* facilitator among the deliberation agents; an agent of another class
\* among the analysts, which answers analyze_data with success false.
SwarmWirings ==
    {[dataCollectors |-> <<CollectorIds[1]>>, analysts |-> <<AnalystIds[1]>>,
      deliberation |-> <<DeliberationIds[1]>>, execution |-> <<ExecutionIds[1]>>],
     [dataCollectors |-> <<CollectorIds[1]>>, analysts |-> <<AnalystIds[1]>>,
      deliberation |-> <<DeliberationIds[2]>>, execution |-> <<ExecutionIds[1]>>],
     [dataCollectors |-> <<CollectorIds[1]>>, analysts |-> <<AnalystIds[1], DeliberationIds[2]>>,
      deliberation |-> <<DeliberationIds[1]>>, execution |-> <<ExecutionIds[1]>>]}

\* The task queue of such an orchestrator: several tasks queued and in flight.
InitSwarm ==
    /\ InitStarted
    /\ \E swarmAgents \in SwarmWirings : InitOrchestratorOver(swarmAgents)
    /\ InitFn
    /\ self = CollectorIds[1]
    /\ lastCall = NoCall

NextSwarm ==
    \/ \E type \in OrchestratorTaskTypes : addTaskUpTo(type, MaxQueued) /\ UNCHANGED <<fnVars, chainVars, messagingVars>>
    \/ Tick /\ UNCHANGED <<fnVars, chainVars, messagingVars>>
    \/ \E id \in TaskIds, a \in Range(agents.dataCollectors), n \in 0..MaxItems :
          CollectorSettles(id, a, n) /\ UNCHANGED <<fnVars, chainVars, messagingVars>>
    \/ \E id \in TaskIds : AnalysisStarts(id) /\ UNCHANGED <<fnVars, chainVars, messagingVars>>
    \/ \E id \in TaskIds, a \in Range(agents.analysts) : AnalystSettles(id, a) /\ UNCHANGED <<fnVars, chainVars, messagingVars>>
    \/ \E id \in TaskIds : DeliberationStarts(id) /\ UNCHANGED <<fnVars, chainVars, messagingVars>>
    \/ \E id \in TaskIds : FacilitatorReturns(id) /\ UNCHANGED <<fnVars, chainVars, messagingVars>>

SpecSwarm == InitSwarm /\ [][NextSwarm]_vars

\* While the orchestrator runs, its interval keeps firing the drain callback.
LiveSpecSwarm == SpecSwarm /\ WF_vars(Tick /\ UNCHANGED <<fnVars, chainVars, messagingVars>>)

(***************************************************************************)
(* BaseAgent's memory operations called on one agent.                      *)
(***************************************************************************)
\* The memories given to storeMemory, and the limits given to the reads
\* (1, and the default 10).
MemoryValues == [type : {"data_collection", "analysis"}, data : {1, 2}]

MemoryLimits == {1, 10}

\* storeMemory's memoryItem = {id, timestamp: Date.now(), ...memory}; the id
\* is unique per call, here the ordinal of the call.
MemoryItem(id, t, m) == [id |-> id, timestamp |-> t, type |-> m.type, data |-> m.data]

\* this.memory after n storeMemory calls made at clock 0, before the calls
\* that are followed here (ordinals n - 1 down to 0 before the first of them).
StoredEarlier(n) ==
    [i \in 1..n |-> MemoryItem(i - n, 0, [type |-> "data_collection", data |-> 0])]

\* storeMemory(memory) up to its return: the item is pushed, then
\* coordinator.storeAgentMemory writes the gateway's copy (no agent reads that
\* copy back), or throws when the gateway is not connected.
StoreMemory(a, m) ==
    /\ stores < MaxStores
    /\ memory' = [memory EXCEPT ![a] = storeMemory(@, MemoryItem(stores + 1, now, m))]
    /\ stores' = stores + 1
    /\ lastCall' = [agent |-> a, op |-> "storeMemory", memory |-> m,
                    raised |-> ~database.connected]
    /\ UNCHANGED <<now, status, startTime, lastActivityTime, errorCount, tasksCompleted>>
    /\ UNCHANGED lifecycleVars

GetRecentMemories(a, limit) ==
    /\ memory' = [memory EXCEPT ![a] = SortDesc(@)]
    /\ lastCall' = [agent |-> a, op |-> "getRecentMemories",
                    result |-> getRecentMemories(memory[a], limit)]
    /\ UNCHANGED <<now, status, startTime, lastActivityTime, errorCount, tasksCompleted,
                   stores>>
    /\ UNCHANGED lifecycleVars

GetMemoriesByType(a, type, limit) ==
    /\ lastCall' = [agent |-> a, op |-> "getMemoriesByType",
                    result |-> getMemoriesByType(memory[a], type, limit)]
    /\ UNCHANGED <<now, status, startTime, lastActivityTime, errorCount, tasksCompleted,
                   memory, stores>>
    /\ UNCHANGED lifecycleVars

\* A fresh agent, or one whose memory is one entry short of its cap.
InitMemory ==
    /\ InitRun
    /\ InitChain
    /\ now = 0
    /\ status = [a \in AllAgents |-> "inactive"]
    /\ startTime = [a \in AllAgents |-> 0]
    /\ lastActivityTime = [a \in AllAgents |-> 0]
    /\ errorCount = [a \in AllAgents |-> 0]
    /\ tasksCompleted = [a \in AllAgents |-> 0]
    /\ self = CollectorIds[1]
    /\ \E n \in {0, maxMemorySize - 1} :
          memory = [a \in AllAgents |-> IF a = self THEN StoredEarlier(n) ELSE <<>>]
    /\ stores = 0
    /\ InitLifecycle
    /\ InitOrchestrator
    /\ InitFn
    /\ lastCall = NoCall

NextMemory ==
    \/ \E m \in MemoryValues : StoreMemory(self, m) /\ UNCHANGED <<orchestratorVars, fnVars, chainVars, messagingVars>>
    \/ \E limit \in MemoryLimits :
          GetRecentMemories(self, limit) /\ UNCHANGED <<orchestratorVars, fnVars, chainVars, messagingVars>>
    \/ \E type \in {m.type : m \in MemoryValues}, limit \in MemoryLimits :
          GetMemoriesByType(self, type, limit) /\ UNCHANGED <<orchestratorVars, fnVars, chainVars, messagingVars>>
    \/ AdvanceClock /\ UNCHANGED <<orchestratorVars, fnVars, chainVars, messagingVars>>

SpecMemory == InitMemory /\ [][NextMemory]_vars

(***************************************************************************)
(* The coordinator's own operations, called in any order.                  *)
(***************************************************************************)
\* new AgentCoordinator(dbManager): both Maps empty, nothing persisted.
InitCoordinator ==
    /\ InitRun
    /\ InitChain
    /\ InitAgents
    /\ self = CollectorIds[1]
    /\ registry = <<>>
    /\ messageQueues = <<>>
    /\ dbStatus = [a \in AllAgents |-> "none"]
    /\ recoveryTimers = [a \in AllAgents |-> 0]
    /\ collectionInterval = [a \in AllAgents |-> 0]
    /\ liveIntervals = [a \in AllAgents |-> {}]
    /\ intervalsSet = [a \in AllAgents |-> 0]
    /\ startCalls = [a \in AllAgents |-> 0]
    /\ startsAwaiting = [a \in AllAgents |-> 0]
    /\ stopsAwaiting = [a \in AllAgents |-> 0]
    /\ lastLifecycleCall = [a \in AllAgents |-> "none"]
    /\ collections = [a \in AllAgents |-> 0]
    /\ InitMessaging
    /\ InitOrchestrator
    /\ InitFn
    /\ lastCall = NoCall

NextCoordinator ==
    \/ \E agent \in CoordinatorAgents : RegisterAgent(agent) /\ UNCHANGED <<orchestratorVars, fnVars, chainVars>>
    \/ \E id \in CoordinatorIds : UnregisterAgent(id) /\ UNCHANGED <<orchestratorVars, fnVars, chainVars>>
    \/ \E from \in SenderIds \ CoordinatorIds, to \in RecipientIds :
          SendMessage(from, to, SentPayload) /\ UNCHANGED <<orchestratorVars, fnVars, chainVars>>
    \/ \E s \in sending : SendPersists(s) /\ UNCHANGED <<orchestratorVars, fnVars, chainVars>>
    \/ \E from \in SenderIds, type \in BroadcastTypes :
          BroadcastMessage(from, type, BroadcastPayload) /\ UNCHANGED <<orchestratorVars, fnVars, chainVars>>
    \/ \E s \in sending : BroadcastResumes(s) /\ UNCHANGED <<orchestratorVars, fnVars, chainVars>>

SpecCoordinator == InitCoordinator /\ [][NextCoordinator]_vars

\* processTask called directly on one agent, any agent, with any tasks.
InitTask ==
    /\ InitRun
    /\ InitChain
    /\ InitAgents
    /\ InitLifecycle
    /\ InitOrchestrator
    /\ InitFn
    /\ self \in AllAgents
    /\ lastCall = NoCall

NextTask ==
    \/ \E task \in DirectTasks, n \in 0..MaxItems :
          /\ n > 0 => StoresOfTask(self, task, n) > 0
          /\ DirectProcessTask(self, task, n)
          /\ UNCHANGED <<orchestratorVars, fnVars, chainVars, messagingVars>>
    \/ AdvanceClock /\ UNCHANGED <<orchestratorVars, fnVars, chainVars, messagingVars>>

SpecTask == InitTask /\ [][NextTask]_vars

\* The lifecycle of one agent: start / stop calls, recorded faults, timers.
InitAgent ==
    /\ InitRun
    /\ InitChain
    /\ InitAgents
    /\ InitLifecycle
    /\ InitOrchestrator
    /\ InitFn
    /\ self \in AllAgents
    /\ lastCall = NoCall

NextAgent ==
    \/ StartCall(self) /\ UNCHANGED <<orchestratorVars, fnVars, chainVars, messagingVars>>
    \/ \E n \in 0..MaxItems : StartResume(self, n) /\ UNCHANGED <<orchestratorVars, fnVars, chainVars, messagingVars>>
    \/ StopCall(self) /\ UNCHANGED <<orchestratorVars, fnVars, chainVars, messagingVars>>
    \/ StopReturn(self) /\ UNCHANGED <<orchestratorVars, fnVars, chainVars, messagingVars>>
    \/ recordError(self) /\ UNCHANGED <<orchestratorVars, fnVars, chainVars, messagingVars>>
    \/ RecoveryTimerFires(self) /\ UNCHANGED <<orchestratorVars, fnVars, chainVars, messagingVars>>
    \/ \E id \in 1..MaxStarts, n \in 0..MaxItems :
          IntervalFires(self, id, n) /\ UNCHANGED <<orchestratorVars, fnVars, chainVars, messagingVars>>

SpecAgent == InitAgent /\ [][NextAgent]_vars

\* The event loop runs every timer callback that is due.
LiveSpecAgent ==
    /\ SpecAgent
    /\ WF_vars(RecoveryTimerFires(self) /\ UNCHANGED <<orchestratorVars, fnVars, chainVars, messagingVars>>)

\* The consensus computation on every prediction list and threshold.
InitConsensus ==
    /\ InitRun
    /\ InitChain
    /\ InitAgents
    /\ InitLifecycle
    /\ InitOrchestrator
    /\ self = CollectorIds[1]
    /\ lastCall = NoCall
    /\ fnInput \in [fn : {"consensus"},
                    predictions : SeqsUpTo(PredictionValues, MaxPreds),
                    threshold : 0..10]
    /\ fnOutput = NotComputed

NextConsensus ==
    /\ ComputeConsensus
    /\ UNCHANGED <<now, lastCall, agentVars, lifecycleVars, orchestratorVars, messagingVars,
                   chainVars>>

SpecConsensus == InitConsensus /\ [][NextConsensus]_vars

(***************************************************************************)
(* The health of the started swarm while it is shut down: stopAllAgents     *)
(* stops the agents one after the other, an agent fails, time passes, and   *)
(* isHealthy / healthCheck are called in between.                           *)
(***************************************************************************)
\* The agent that records errors and is asked for its health.
HealthFaulty == {ExecutionIds[1]}

\* stopAllAgents: for (const agent of allAgents) await agent.stop(), so the
\* next stop() is called on the first agent not stopped yet, once the stop()
\* before it has returned.
StopAllAgentsCalls(a) ==
    /\ \A b \in AllAgents : stopsAwaiting[b] = 0
    /\ \E i \in DOMAIN AllAgentIds :
          /\ AllAgentIds[i] = a
          /\ lastLifecycleCall[a] # "stop"
          /\ \A k \in 1..(i - 1) : lastLifecycleCall[AllAgentIds[k]] = "stop"
    /\ StopCall(a)

InitHealth ==
    /\ InitStarted
    /\ InitOrchestrator
    /\ InitFn
    /\ self = CollectorIds[1]
    /\ lastCall = NoCall

NextHealth ==
    \/ \E a \in AllAgents : StopAllAgentsCalls(a) /\ UNCHANGED <<orchestratorVars, fnVars, chainVars, messagingVars>>
    \/ \E a \in AllAgents : StopReturn(a) /\ UNCHANGED <<orchestratorVars, fnVars, chainVars, messagingVars>>
    \/ \E a \in HealthFaulty : recordError(a) /\ UNCHANGED <<orchestratorVars, fnVars, chainVars, messagingVars>>
    \/ \E a \in HealthFaulty : RecoveryTimerFires(a) /\ UNCHANGED <<orchestratorVars, fnVars, chainVars, messagingVars>>
    \/ \E t \in ClockValues : TimePasses(t) /\ UNCHANGED <<orchestratorVars, fnVars, chainVars, messagingVars>>
    \/ \E a \in HealthFaulty : IsHealthyCall(a) /\ UNCHANGED <<orchestratorVars, fnVars, chainVars, messagingVars>>
    \/ HealthCheckCall /\ UNCHANGED <<orchestratorVars, fnVars, chainVars, messagingVars>>

SpecHealth == InitHealth /\ [][NextHealth]_vars

(***************************************************************************)
(* Every kind of event on one agent: start, stop and restart, tasks,        *)
(* messages, recorded faults, recovery timers, with getMetrics in between.  *)
(***************************************************************************)
\* The agent observed.
MetricsAgents == {AnalystIds[1]}

\* The tasks handed to the observed agent: one it handles, one it does not.
MetricsTasks == {[type |-> "analyze_data", items |-> <<>>], [type |-> "collect_data"]}

\* One caller drives the agent and awaits each call before the next.
CallerIdle == startsAwaiting[self] = 0 /\ stopsAwaiting[self] = 0 /\ sending = {}

InitMetrics ==
    /\ InitRun
    /\ InitChain
    /\ InitAgents
    /\ InitLifecycle
    /\ InitOrchestrator
    /\ InitFn
    /\ self \in MetricsAgents
    /\ lastCall = NoCall

NextMetrics ==
    \/ CallerIdle /\ StartCall(self) /\ UNCHANGED <<orchestratorVars, fnVars, chainVars, messagingVars>>
    \/ \E n \in 0..MaxItems : StartResume(self, n) /\ UNCHANGED <<orchestratorVars, fnVars, chainVars, messagingVars>>
    \/ CallerIdle /\ StopCall(self) /\ UNCHANGED <<orchestratorVars, fnVars, chainVars, messagingVars>>
    \/ StopReturn(self) /\ UNCHANGED <<orchestratorVars, fnVars, chainVars, messagingVars>>
    \/ recordError(self) /\ UNCHANGED <<orchestratorVars, fnVars, chainVars, messagingVars>>
    \/ RecoveryTimerFires(self) /\ UNCHANGED <<orchestratorVars, fnVars, chainVars, messagingVars>>
    \/ \E task \in MetricsTasks, n \in 0..MaxItems :
          /\ CallerIdle
          /\ n > 0 => StoresOfTask(self, task, n) > 0
          /\ DirectProcessTask(self, task, n)
          /\ UNCHANGED <<orchestratorVars, fnVars, chainVars, messagingVars>>
    \/ \E from \in SenderIds \ {self} :
          CallerIdle /\ SendMessage(from, self, SentPayload) /\ UNCHANGED <<orchestratorVars, fnVars, chainVars>>
    \/ \E s \in sending : SendPersists(s) /\ UNCHANGED <<orchestratorVars, fnVars, chainVars>>
    \/ CallerIdle /\ GetMetricsCall(self) /\ UNCHANGED <<orchestratorVars, fnVars, chainVars, messagingVars>>

SpecMetrics == InitMetrics /\ [][NextMetrics]_vars

(***************************************************************************)
(* The coordinator and an agent over a gateway that is constructed, then    *)
(* connected, disconnected and closed at any time.                          *)
(***************************************************************************)
\* new DatabaseManager(url): not connected; fallback mode with the default
\* URL, a pool otherwise.
ConstructedDatabases == [connected : {FALSE}, fallbackMode : BOOLEAN]

\* The agent handed to registerAgent, and the item handed to storeMemory.
GatewayAgent == AgentObject(CollectorIds[2])

GatewayMemory == [type |-> "data_collection", data |-> 0]

InitGateway ==
    /\ InitRun
    /\ InitChain
    /\ InitAgents
    /\ self = CollectorIds[1]
    /\ registry = <<>>
    /\ messageQueues = <<>>
    /\ dbStatus = [a \in AllAgents |-> "none"]
    /\ recoveryTimers = [a \in AllAgents |-> 0]
    /\ collectionInterval = [a \in AllAgents |-> 0]
    /\ liveIntervals = [a \in AllAgents |-> {}]
    /\ intervalsSet = [a \in AllAgents |-> 0]
    /\ startCalls = [a \in AllAgents |-> 0]
    /\ startsAwaiting = [a \in AllAgents |-> 0]
    /\ stopsAwaiting = [a \in AllAgents |-> 0]
    /\ lastLifecycleCall = [a \in AllAgents |-> "none"]
    /\ collections = [a \in AllAgents |-> 0]
    /\ messageData = <<>>
    /\ messagesSent = 0
    /\ deliveries = <<>>
    /\ sending = {}
    /\ broadcast = NoBroadcast
    /\ coordinatorCalls = 0
    /\ database \in ConstructedDatabases
    /\ InitOrchestrator
    /\ InitFn
    /\ lastCall = NoCall

NextGateway ==
    \/ \E queryOk \in BOOLEAN : Connect(queryOk) /\ UNCHANGED <<orchestratorVars, fnVars, chainVars>>
    \/ \E endOk \in BOOLEAN : Disconnect(endOk) /\ UNCHANGED <<orchestratorVars, fnVars, chainVars>>
    \/ Close /\ UNCHANGED <<orchestratorVars, fnVars, chainVars>>
    \/ RegisterAgent(GatewayAgent) /\ UNCHANGED <<orchestratorVars, fnVars, chainVars>>
    \/ UnregisterAgent(GatewayAgent.id) /\ UNCHANGED <<orchestratorVars, fnVars, chainVars>>
    \/ \E from \in SenderIds \ CoordinatorIds, to \in RecipientIds :
          SendMessage(from, to, SentPayload) /\ UNCHANGED <<orchestratorVars, fnVars, chainVars>>
    \/ \E s \in sending : SendPersists(s) /\ UNCHANGED <<orchestratorVars, fnVars, chainVars>>
    \/ \E s \in sending : SendRejects(s) /\ UNCHANGED <<orchestratorVars, fnVars, chainVars>>
    \/ StoreMemory(self, GatewayMemory) /\ UNCHANGED <<orchestratorVars, fnVars, chainVars, messagingVars>>

SpecGateway == InitGateway /\ [][NextGateway]_vars

(***************************************************************************)
(* collectData runs of the sentiment collectors over every outcome of       *)
(* their provider calls.                                                    *)
(***************************************************************************)
SentimentCollectors == {CollectorIds[1], CollectorIds[2], CollectorIds[3]}

InitCollect ==
    /\ InitRun
    /\ InitChain
    /\ InitAgents
    /\ InitLifecycle
    /\ InitOrchestrator
    /\ InitFn
    /\ self \in SentimentCollectors
    /\ lastCall = NoCall

NextCollect ==
    \/ \E calls \in SeqsUpTo(ProviderOutcomes, MaxTopics) :
          CollectFromProvider(self, calls) /\ UNCHANGED <<orchestratorVars, fnVars, chainVars, messagingVars>>
    \/ AdvanceClock /\ UNCHANGED <<orchestratorVars, fnVars, chainVars, messagingVars>>

SpecCollect == InitCollect /\ [][NextCollect]_vars

\* The resolver's decision on every evidence list.
InitResolution ==
    /\ InitRun
    /\ InitChain
    /\ InitAgents
    /\ InitLifecycle
    /\ InitOrchestrator
    /\ self = DeliberationIds[2]
    /\ lastCall = NoCall
    /\ fnInput \in [fn : {"resolution"}, evidence : SeqsUpTo(EvidenceValues, MaxEvidence)]
    /\ fnOutput = NotComputed

NextResolution ==
    /\ ComputeResolution
    /\ UNCHANGED <<now, lastCall, agentVars, lifecycleVars, orchestratorVars, messagingVars,
                   chainVars>>

SpecResolution == InitResolution /\ [][NextResolution]_vars

\* A started analyst that is handed tasks while the clock advances, and
\* whose isHealthy() is read in between.
ActivityTasks == {task \in DirectTasks : task.type \in {"analyze_data", "analysis", "deliberate"}}

InitActivity ==
    /\ InitStarted
    /\ InitOrchestrator
    /\ InitFn
    /\ self \in {AnalystIds[1], AnalystIds[2]}
    /\ lastCall = NoCall

NextActivity ==
    \/ \E task \in ActivityTasks :
          DirectProcessTask(self, task, 0) /\ UNCHANGED <<orchestratorVars, fnVars, chainVars, messagingVars>>
    \/ \E t \in ClockValues : TimePasses(t) /\ UNCHANGED <<orchestratorVars, fnVars, chainVars, messagingVars>>
    \/ IsHealthyCall(self) /\ UNCHANGED <<orchestratorVars, fnVars, chainVars, messagingVars>>

SpecActivity == InitActivity /\ [][NextActivity]_vars

\* The orchestrator of index.ts from its construction: start() and stop()
\* in any order, tasks added by callers and by the demo cycle, the drain and
\* demo timers (the health timer's callback reads the registry and logs).
\* Callers add tasks of another type than the demo cycle's.
CallerTaskTypes == {"data_collection"}

InitRunning ==
    /\ InitRun
    /\ InitChain
    /\ InitAgents
    /\ InitLifecycle
    /\ InitOrchestrator
    /\ InitFn
    /\ self = CollectorIds[1]
    /\ lastCall = NoCall

NextRunning ==
    \/ start /\ UNCHANGED <<fnVars, chainVars, messagingVars>>
    \/ \E a \in AllAgents : startAllAgents(a) /\ UNCHANGED <<fnVars, chainVars, messagingVars>>
    \/ \E a \in AllAgents, n \in 0..MaxItems :
          startAllAgentsResumes(a, n) /\ UNCHANGED <<fnVars, chainVars, messagingVars>>
    \/ startReturns /\ UNCHANGED <<fnVars, chainVars, messagingVars>>
    \/ stop /\ UNCHANGED <<fnVars, chainVars, messagingVars>>
    \/ \E a \in AllAgents : stopAllAgents(a) /\ UNCHANGED <<fnVars, chainVars, messagingVars>>
    \/ \E a \in AllAgents : stopAllAgentsResumes(a) /\ UNCHANGED <<fnVars, chainVars, messagingVars>>
    \/ stopReturns /\ UNCHANGED <<fnVars, chainVars>>
    \/ \E type \in CallerTaskTypes : addTask(type) /\ UNCHANGED <<fnVars, chainVars, messagingVars>>
    \/ DemoCycleFires /\ UNCHANGED <<fnVars, chainVars, messagingVars>>
    \/ Tick /\ UNCHANGED <<fnVars, chainVars, messagingVars>>
    \/ \E id \in 1..MaxTasks, a \in Range(dataCollectors), n \in 0..MaxItems :
          CollectorSettles(id, a, n) /\ UNCHANGED <<fnVars, chainVars, messagingVars>>
    \/ \E id \in 1..MaxTasks : AnalysisStarts(id) /\ UNCHANGED <<fnVars, chainVars, messagingVars>>
    \/ \E id \in 1..MaxTasks, a \in Range(analysts) : AnalystSettles(id, a) /\ UNCHANGED <<fnVars, chainVars, messagingVars>>
    \/ \E id \in 1..MaxTasks : DeliberationStarts(id) /\ UNCHANGED <<fnVars, chainVars, messagingVars>>
    \/ \E id \in 1..MaxTasks : FacilitatorReturns(id) /\ UNCHANGED <<fnVars, chainVars, messagingVars>>

SpecRunning == InitRunning /\ [][NextRunning]_vars

\* The deployed contract with every caller: the owner, two users, an agent,
\* anyone calling performUpkeep, and the VRF coordinator.
OffChain == <<now, agentVars, lifecycleVars, orchestratorVars, fnVars, messagingVars>>

InitMarket ==
    /\ InitRun
    /\ InitChain
    /\ InitAgents
    /\ InitLifecycle
    /\ InitOrchestrator
    /\ InitFn
    /\ self = CollectorIds[1]
    /\ lastCall = NoCall

NextMarket ==
    \/ \E creatorFee \in {1000} :
          \E endTime \in BlockTimes :
              createMarket(endTime, creatorFee) /\ UNCHANGED <<lastCall, OffChain>>
    \/ \E user \in Users, marketId \in MarketIds, side \in BOOLEAN :
          placeBet(user, marketId, side, minBetAmount) /\ UNCHANGED <<lastCall, OffChain>>
    \/ \E agent \in Agents, marketId \in MarketIds, prediction \in BOOLEAN :
          submitAgentPrediction(agent, marketId, prediction, 10000)
              /\ UNCHANGED <<lastCall, OffChain>>
    \/ \E marketId \in MarketIds, outcome \in BOOLEAN :
          resolveMarket(marketId, outcome) /\ UNCHANGED <<lastCall, OffChain>>
    \/ \E user \in Users, marketId \in MarketIds :
          claimWinnings(user, marketId) /\ UNCHANGED <<lastCall, OffChain>>
    \/ \E marketId \in MarketIds : performUpkeep(marketId) /\ UNCHANGED <<lastCall, OffChain>>
    \/ \E requestId \in 1..MaxRequests, randomWord \in {0, 1} :
          fulfillRandomWords(requestId, randomWord) /\ UNCHANGED OffChain
    \/ \E agent \in Agents, authorized \in {TRUE} :
          setAgentAuthorization(agent, authorized) /\ UNCHANGED <<lastCall, OffChain>>
    \/ withdrawFees /\ UNCHANGED <<lastCall, OffChain>>
    \/ \E marketId \in MarketIds : pauseMarket(marketId) /\ UNCHANGED <<lastCall, OffChain>>
    \/ \E t \in BlockTimes : BlockMined(t) /\ UNCHANGED <<lastCall, OffChain>>

SpecMarket == InitMarket /\ [][NextMarket]_vars

(***************************************************************************)
(* Properties of the market-prediction pipeline (Spec).                     *)
(***************************************************************************)
Settled(r) == r \notin {NotStarted, Pending}

Started(r) == r # NotStarted

\* C1: the stages of a market-prediction task are separated by barriers: no
\* analyst's processTask is started before every collector's has settled, and
\* the analysts are handed the whole set of collector results; the
\* facilitator's is started only after every analyst's has settled, with the
\* whole set of analyst results; the risk manager's only after the
\* facilitator's has returned.
C1_StagesAreBarriers ==
    \A id \in 1..MaxTasks :
        /\ (\E a \in Range(analysts) : Started(run[id].analyzed[a]))
              => /\ \A c \in Range(dataCollectors) : Settled(run[id].collected[c])
                 /\ run[id].dataCollection = FilterNonNull(dataCollectors, run[id].collected)
        /\ Started(run[id].consensus)
              => /\ \A a \in Range(analysts) : Settled(run[id].analyzed[a])
                 /\ run[id].analysisResults = FilterNonNull(analysts, run[id].analyzed)
        /\ Started(run[id].riskAssessment) => Settled(run[id].consensus)

\* The facilitator has been called, with four analyst results computed from
\* four collector results.
C1_Witness ==
    \E id \in 1..MaxTasks :
        /\ run[id].pc = "deliberating"
        /\ run[id].consensus = Pending
        /\ Len(run[id].dataCollection) = Len(dataCollectors)
        /\ Len(run[id].analysisResults) = Len(analysts)

\* The direction an analyst Result states: the technical analyst's trend, the
\* sentiment analyst's sentiment.
AnalysisDirection(r) ==
    IF ~HasProp(r, "analysis") THEN Undefined
    ELSE IF HasProp(r.analysis, "trend") THEN r.analysis.trend
    ELSE IF HasProp(r.analysis, "sentiment") THEN r.analysis.sentiment
    ELSE Undefined

Unanimous(results) ==
    Cardinality({AnalysisDirection(results[i]) : i \in DOMAIN results} \ {Undefined}) = 1

\* C2: a market-prediction task whose analysts all state the same direction
\* ends with the risk manager called and an execution recommendation
\* returned.
C2_UnanimousRunReachesRiskManager ==
    \A id \in 1..MaxTasks :
        (run[id].pc = "done" /\ run[id].type = "market_prediction"
            /\ Unanimous(run[id].analysisResults))
        => /\ Started(run[id].riskAssessment)
           /\ HasProp(run[id].riskAssessment, "recommendation")

\* C3: the risk manager is called only when the record the facilitator
\* returned has hasConsensus true; otherwise the task completes with no
\* executor call.
C3_ExecutorOnlyOnConsensus ==
    \A id \in 1..MaxTasks :
        /\ Started(run[id].riskAssessment) => HasConsensusOf(run[id].consensus) = "true"
        /\ (Settled(run[id].consensus) /\ HasConsensusOf(run[id].consensus) # "true")
              => /\ run[id].riskAssessment = NotStarted
                 /\ run[id].pc = "done"
                 /\ run[id].outcome = "completed"

\* A market-prediction task whose facilitator returned a record without
\* hasConsensus true has completed, and the risk manager was not called.
C3_Witness ==
    \E id \in 1..MaxTasks :
        /\ run[id].type = "market_prediction"
        /\ run[id].pc = "done"
        /\ Settled(run[id].consensus)
        /\ HasConsensusOf(run[id].consensus) # "true"
        /\ run[id].riskAssessment = NotStarted
        /\ run[id].outcome = "completed"

(***************************************************************************)
(* Properties of the consensus computation (SpecConsensus).                 *)
(***************************************************************************)
Votes(predictions, d) ==
    Cardinality({i \in DOMAIN predictions : predictions[i].direction = d})

AllVote(predictions) ==
    \A i \in DOMAIN predictions : predictions[i].direction \in Range(Directions)

\* C4: for N >= 1 predictions that each carry a direction, and every
\* threshold T: the record's direction has the largest vote count, its
\* strength is exactly that count over N, and hasConsensus holds exactly when
\* strength >= T.
C4_ConsensusIsPlurality ==
    (fnInput.fn = "consensus" /\ fnOutput # NotComputed
        /\ Len(fnInput.predictions) >= 1 /\ AllVote(fnInput.predictions))
    => LET predictions == fnInput.predictions
           N == Len(predictions)
           count == Votes(predictions, fnOutput.direction)
       IN  /\ fnOutput.direction \in Range(Directions)
           /\ \A d \in Range(Directions) : Votes(predictions, d) <= count
           /\ fnOutput.strength = Ratio(count, N)
           /\ fnOutput.hasConsensus = (10 * count >= fnInput.threshold * N)

\* Two bullish votes and one bearish vote under threshold 0.8: bullish with
\* strength 2/3, no consensus.
C4_Witness ==
    /\ fnInput.fn = "consensus"
    /\ fnOutput # NotComputed
    /\ AllVote(fnInput.predictions)
    /\ fnInput.threshold = 8
    /\ Len(fnInput.predictions) = 3
    /\ Votes(fnInput.predictions, "bullish") = 2
    /\ Votes(fnInput.predictions, "bearish") = 1
    /\ fnOutput.direction = "bullish"
    /\ ~fnOutput.hasConsensus
    /\ fnOutput.strength = Ratio(2, 3)

(***************************************************************************)
(* Properties of processTask (SpecTask).                                    *)
(***************************************************************************)
\* C5: a 'deliberate' task handed to the facilitator's processTask always
\* comes back as a successful Result that carries a consensus record.
C5_DeliberateAlwaysSucceeds ==
    (lastCall # NoCall /\ getType(lastCall.agent) = "facilitator"
        /\ lastCall.task.type = "deliberate")
    => /\ ~lastCall.outcome.thrown
       /\ lastCall.outcome.val.success
       /\ HasProp(lastCall.outcome.val, "result")
       /\ HasProp(lastCall.outcome.val.result, "consensus")

IsString(v) == v \in STRING

\* C6: processTask of every role never raises to its caller; the Result it
\* returns carries agentId, taskType, timestamp and a boolean success, and a
\* string error when success is false.
C6_ProcessTaskNeverRaises ==
    lastCall # NoCall
    => /\ ~lastCall.outcome.thrown
       /\ LET result == lastCall.outcome.val
          IN  /\ {"agentId", "taskType", "timestamp", "success"} \subseteq DOMAIN result
              /\ result.agentId = lastCall.agent
              /\ result.success \in BOOLEAN
              /\ ~result.success => (HasProp(result, "error") /\ IsString(result.error))

\* An executor was handed a task whose handler threw, and the caller got a
\* failure Result.
C6_Witness ==
    /\ lastCall # NoCall
    /\ RoleOf(lastCall.agent) = "executor"
    /\ lastCall.threwInside
    /\ ~lastCall.outcome.thrown
    /\ ~lastCall.outcome.val.success

\* C7: a processTask call in which an exception is raised adds one to the
\* agent's errorCount and sets its status to error.
C7_FaultIsRecorded ==
    [][\A a \in AllAgents :
          (lastCall' # lastCall /\ lastCall'.agent = a /\ lastCall'.threwInside)
          => (errorCount'[a] = errorCount[a] + 1 /\ status'[a] = "error")]_vars

(***************************************************************************)
(* Properties of the agent lifecycle (SpecAgent, LiveSpecAgent).            *)
(***************************************************************************)
\* C8: once recordError has put an agent into status error, the status
\* becomes active again through the recovery timer alone, unless the agent
\* is stopped.
C8_ErrorRecovers ==
    (status[self] = "error") ~> (status[self] \in {"active", "inactive"})

\* An agent that was never started is active: only the recovery timer of a
\* recorded fault can have set that.
C8_Witness ==
    /\ errorCount[self] > 0
    /\ startCalls[self] = 0
    /\ status[self] = "active"

\* stop() has returned and no start() was called since.
Stopped(a) == lastLifecycleCall[a] = "stop"

\* C9: after stop() has set the status to inactive it stays inactive until
\* the next start().
C9_StoppedStaysInactive ==
    [][\A a \in AllAgents :
          (Stopped(a) /\ status[a] = "inactive" /\ startCalls'[a] = startCalls[a])
          => status'[a] = "inactive"]_vars

Quiesced(a) == Stopped(a) /\ stopsAwaiting[a] = 0

\* C10: after a collector's stop() has returned, its periodic collection
\* does not run again.
C10_NoCollectionAfterStop ==
    [][\A a \in Range(CollectorIds) :
          Quiesced(a) => collections'[a] = collections[a]]_vars

(***************************************************************************)
(* The task queue of the orchestrator.                                     *)
(***************************************************************************)
Dispatched(id) == run[id].dispatches > 0

\* C11: tasks leave the queue in the order addTask added them (a task is
\* dispatched only when every task added before it has been), and one step
\* of the drain callback removes at most one task, the one at the head.
C11_FifoOneTaskPerTick ==
    /\ [](\A i, j \in TaskIds : (i < j /\ Dispatched(j)) => Dispatched(i))
    /\ [][Len(taskQueue') < Len(taskQueue)
           => (taskQueue' = Tail(taskQueue)
               /\ run'[Head(taskQueue).id].dispatches = run[Head(taskQueue).id].dispatches + 1)]_vars

C11_Witness ==
    /\ tasksAdded = 2
    /\ Dispatched(1)
    /\ ~Dispatched(2)
    /\ Len(taskQueue) = 1
    /\ taskQueue[1].id = 2

InQueue(id) == Cardinality({k \in DOMAIN taskQueue : taskQueue[k].id = id})

\* C12: a task that was added is either waiting in the queue, once, or has
\* been handed to processTask, once, never both and never neither; and while
\* the drain callback keeps firing, every queued task is handed to processTask.
C12_DispatchedExactlyOnce ==
    /\ [](\A id \in TaskIds : run[id].dispatches <= 1)
    /\ [](\A id \in TaskIds :
             InQueue(id) + run[id].dispatches = (IF id <= tasksAdded THEN 1 ELSE 0))
    /\ \A id \in TaskIds : (run[id].pc = "queued") ~> (run[id].dispatches = 1)

C12_Witness ==
    /\ tasksAdded = MaxQueued
    /\ taskQueue = <<>>
    /\ \A id \in 1..MaxQueued : run[id].dispatches = 1 /\ run[id].pc = "done"

(***************************************************************************)
(* Failures inside a pipeline stage.                                       *)
(***************************************************************************)
\* C13: the result set a stage hands on holds no result of an agent whose
\* processTask failed: every aggregated collector result and every
\* aggregated analysis result reports success.
C13_FailedAgentContributesNothing ==
    \A id \in TaskIds :
        /\ \A k \in DOMAIN run[id].dataCollection : run[id].dataCollection[k].success
        /\ \A k \in DOMAIN run[id].analysisResults : run[id].analysisResults[k].success

Failed(id) == run[id].outcome = "failed"

\* C14: an exception raised while a task is processed never leaves the
\* orchestrator's processTask; the step in which a task fails leaves the
\* queue as it was; and, the drain callback still firing, every task that is
\* queued when some task has failed is dequeued and handed to processTask.
C14_ExceptionStaysInsideOrchestrator ==
    /\ []ProcessAlive
    /\ [][\A id \in TaskIds : (~Failed(id) /\ run'[id].outcome = "failed")
                                => taskQueue' = taskQueue]_vars
    /\ \A id \in TaskIds :
          ((\E f \in TaskIds : Failed(f)) /\ InQueue(id) = 1) ~> Dispatched(id)

C14_Witness ==
    \E f, id \in TaskIds :
        /\ Failed(f)
        /\ f < id
        /\ run[id].failuresBefore = 1
        /\ run[id].pc = "done"
        /\ run[id].outcome = "completed"

(***************************************************************************)
(* The private memory of an agent.                                         *)
(***************************************************************************)
HeldIds == {memory[self][k].id : k \in DOMAIN memory[self]}

\* C15: the memory holds exactly the most recently stored entries: the
\* entries held are the last Len(memory) ones stored, so that an entry is
\* gone only when every entry stored before it is gone too.
C15_MemoryHoldsMostRecent == HeldIds = (stores - Len(memory[self]) + 1)..stores

\* C16: no agent's memory ever holds more than maxMemorySize entries.
C16_MemoryWithinCap == \A a \in AllAgents : Len(memory[a]) <= maxMemorySize

C16_Witness ==
    /\ stores = 2
    /\ Len(memory[self]) = maxMemorySize
    /\ lastCall.op = "storeMemory"
    /\ \E k \in DOMAIN memory[self] : memory[self][k].id < 0

\* C17: right after storeMemory(m), getRecentMemories(1) yields one entry,
\* with the type and the data of m.
C17_StoredIsMostRecent ==
    (HasProp(lastCall, "op") /\ lastCall.op = "storeMemory")
    => LET recent == getRecentMemories(memory[self], 1)
       IN  /\ Len(recent) = 1
           /\ recent[1].type = lastCall.memory.type
           /\ recent[1].data = lastCall.memory.data

(***************************************************************************)
(* The coordinator's registry and message delivery.                        *)
(***************************************************************************)
Entries(id) == Cardinality({k \in DOMAIN registry : registry[k].id = id})

\* C18: after registerAgent(agent) the registry has exactly one entry for the
\* agent's id, the agent just registered, also when the id was registered
\* before; no id ever has two entries; and unregisterAgent of an id that is
\* not registered changes neither the registry nor the mailboxes.
C18_RegistryIsUpsert ==
    /\ [](\A id \in AllAgents : Entries(id) <= 1)
    /\ []((HasProp(lastCall, "op") /\ lastCall.op = "registerAgent")
           => (Entries(lastCall.agent) = 1 /\ MapGet(registry, lastCall.agent) = lastCall.object))
    /\ [][(coordinatorCalls' # coordinatorCalls /\ lastCall'.op = "unregisterAgent"
            /\ ~lastCall'.wasRegistered)
           => (registry' = registry /\ messageQueues' = messageQueues)]_vars

C18_Witness ==
    /\ HasProp(lastCall, "op")
    /\ lastCall.op = "registerAgent"
    /\ lastCall.wasRegistered
    /\ Len(registry) = 2
    /\ Entries(lastCall.agent) = 1

Stored(id) ==
    Cardinality({k \in DOMAIN messageData : messageData[k].message.id = id})

Handled(id) ==
    Cardinality({k \in DOMAIN deliveries : deliveries[k].message = id})

C20_BroadcastReachesOnlyItsType ==
    \A k \in DOMAIN deliveries :
        deliveries[k].broadcast # "none" => deliveries[k].agent.type = deliveries[k].broadcast

C22_HealthCheckAtLeastEightyPercent ==
    (HasProp(lastCall, "op") /\ lastCall.op = "healthCheck" /\ lastCall.check.totalAgents > 0)
    => (lastCall.check.result
        <=> 5 * lastCall.check.healthyAgents >= 4 * lastCall.check.totalAgents)

\* C23: isHealthy() is true exactly when the status is active and the time
\* since the last activity is below the five-minute inactivity limit.
C23_IsHealthyExactly ==
    (HasProp(lastCall, "op") /\ lastCall.op = "isHealthy")
    => (lastCall.result
        <=> (lastCall.status = "active" /\ lastCall.elapsed < maxInactivityTime))

C23_Witness ==
    /\ HasProp(lastCall, "op")
    /\ lastCall.op = "isHealthy"
    /\ lastCall.status = "active"
    /\ lastCall.elapsed = maxInactivityTime - 1
    /\ lastCall.result

\* C24: the errorCount getMetrics reports never decreases: no start, stop,
\* restart, task, message, fault or recovery-timer event lowers an agent's
\* error counter, and getMetrics reports the counter as it stands.
C24_ErrorCountNeverDecreases ==
    /\ [][\A a \in AllAgents : errorCount'[a] >= errorCount[a]]_vars
    /\ [][(lastCall' # lastCall /\ HasProp(lastCall', "op") /\ lastCall'.op = "getMetrics")
          => lastCall'.metrics.errorCount = errorCount[lastCall'.agent]]_vars
    /\ []((HasProp(lastCall, "op") /\ lastCall.op = "getMetrics")
          => lastCall.metrics.errorCount <= errorCount[lastCall.agent])

C24_Witness ==
    /\ HasProp(lastCall, "op")
    /\ lastCall.op = "getMetrics"
    /\ lastCall.metrics.errorCount = MaxErrors
    /\ lastCall.metrics.status = "active"
    /\ startCalls[self] = 2
    /\ lastLifecycleCall[self] = "start"
    /\ messagesSent > 0

\* C25: with the persistence gateway unavailable (connection failed, not
\* connected, or closed), registerAgent, unregisterAgent, sendMessage and
\* storeMemory still complete without raising.
C25_CompletesWithoutGateway ==
    (HasProp(lastCall, "op")
     /\ lastCall.op \in {"registerAgent", "unregisterAgent", "sendMessage", "storeMemory"})
    => ~lastCall.raised

\* The task types the processTask of an agent's class has a case for.
HandledTypes(a) ==
    IF RoleOf(a) = "collector" THEN {"collect_data"}
    ELSE IF RoleOf(a) = "analyst" THEN {"analyze_data"}
    ELSE IF RoleOf(a) = "deliberator" THEN {"deliberate", "resolve_dispute"}
    ELSE {"execute_trade", "manage_risk", "cross_chain_bridge"}

Unhandled(call) ==
    HasProp(call, "task") /\ call.task.type \notin HandledTypes(call.agent)

\* C26: processTask with a task type the agent's role does not handle does
\* no role work and changes no agent state; it only returns a failure Result
\* whose error is 'Unknown task type'.
C26_UnknownTaskTypeOnlyFails ==
    [][(lastCall' # lastCall /\ Unhandled(lastCall'))
       => /\ agentVars' = agentVars
          /\ lifecycleVars' = lifecycleVars
          /\ ~lastCall'.threwInside
          /\ ~lastCall'.outcome.thrown
          /\ lastCall'.outcome.val.success = FALSE
          /\ lastCall'.outcome.val.error = "Unknown task type"
          /\ lastCall'.outcome.val.taskType = lastCall'.task.type]_vars

C26_Witness ==
    /\ Unhandled(lastCall)
    /\ RoleOf(self) = "collector"
    /\ memory[self] # <<>>
    /\ lastCall.outcome.val.error = "Unknown task type"

\* C27: every consensus the facilitator computes has a strength that is a
\* number within [0, 1], whatever the prediction list: the empty list and
\* lists with predictions that carry no direction included.
C27_StrengthWithinUnitInterval ==
    (fnOutput # NotComputed)
    => /\ ~IsNaN(fnOutput.strength)
       /\ 0 <= fnOutput.strength.num
       /\ fnOutput.strength.num <= fnOutput.strength.den

\* What an analysis states is neutral: a neutral trend or sentiment, the
\* baseline score, no positive or negative overall sentiment.
NeutralOutcome(analysis) ==
    /\ HasProp(analysis, "trend") => analysis.trend = "neutral"
    /\ HasProp(analysis, "sentiment") => analysis.sentiment = "neutral"
    /\ HasProp(analysis, "score") => analysis.score = 50
    /\ HasProp(analysis, "overallSentiment") => analysis.overallSentiment = "neutral"

EmptyAnalysis(call) ==
    /\ HasProp(call, "task")
    /\ RoleOf(call.agent) = "analyst"
    /\ call.task.type = "analyze_data"
    /\ HasProp(call.task, "items") => call.task.items = <<>>

\* C28: for each of the four analyst specialties, an analyze_data task with
\* an empty input list returns a successful Result whose analysis has a
\* confidence of at most 0.2 and a neutral outcome.
C28_EmptyInputIsLowConfidenceNeutral ==
    EmptyAnalysis(lastCall)
    => /\ ~lastCall.outcome.thrown
       /\ ~lastCall.threwInside
       /\ lastCall.outcome.val.success
       /\ lastCall.outcome.val.analysis.confidence <= 20
       /\ NeutralOutcome(lastCall.outcome.val.analysis)

\* C29: a provider call that returns zero raw items yields no observation and
\* no memory entry, and raises no error: a collectData run collects and
\* stores one observation for each call that returned items, and none other.
C29_ZeroItemsZeroObservations ==
    (HasProp(lastCall, "op") /\ lastCall.op = "collectData")
    => /\ \A i \in DOMAIN lastCall.observations : lastCall.observations[i].volume > 0
       /\ lastCall.stored
            = Cardinality({i \in DOMAIN lastCall.calls :
                              ~lastCall.calls[i].threw /\ lastCall.calls[i].items > 0})
       /\ ~lastCall.raised

\* A processTask call that ran the risk manager's assessment on a task that
\* carries a prediction confidence and a volatility (in hundredths).
RiskCall(call) ==
    /\ HasProp(call, "task")
    /\ HasProp(call.task, "confidence")
    /\ ~call.outcome.thrown
    /\ HasProp(call.outcome.val, "result")
    /\ HasProp(call.outcome.val.result, "riskAssessment")

\* C30: for every confidence c in [0, 1] and volatility v >= 0, c = 0 and
\* v = 0 included, overall = min(1, ((1 - c) + v / 0.5) / 2), which lies in
\* [0, 1]; the recommendation is reject with maxExposure 0 when overall > 0.7,
\* proceed_with_caution with 0.5 when 0.4 < overall <= 0.7, and proceed with
\* 0.8 otherwise.  (overall is compared doubled, in two-hundredths.)
C30_RiskScoreAndRecommendation ==
    RiskCall(lastCall)
    => LET c == lastCall.task.confidence
           v == lastCall.task.volatility
           expected2 == Min(200, (100 - c) + 2 * v)
           result == lastCall.outcome.val.result
       IN  /\ result.riskAssessment.overall2 = expected2
           /\ result.riskAssessment.overall2 \in 0..200
           /\ result.recommendation =
                 IF expected2 > 140 THEN [action |-> "reject", maxExposure |-> 0]
                 ELSE IF expected2 > 80
                 THEN [action |-> "proceed_with_caution", maxExposure |-> 5]
                 ELSE [action |-> "proceed", maxExposure |-> 8]

\* The weight the claim gives an evidence item, in tenths.
StatedWeight(item) ==
    Min(10, 5 + (IF item.source = "onchain" THEN 3
                 ELSE IF item.source = "news" THEN 2
                 ELSE IF item.source = "social" THEN 1 ELSE 0)
              + (IF item.ageHours < 1 THEN 2 ELSE IF item.ageHours < 24 THEN 1 ELSE 0))

\* C31: the resolver chooses evidence_based exactly when at least one of the
\* evidence items has a weight above 0.8, and majority_vote otherwise, for
\* every evidence list, lists with several items of one source included.
C31_EvidenceBasedIffStrongItem ==
    (fnInput.fn = "resolution" /\ fnOutput # NotComputed)
    => /\ fnOutput.resolution \in {"evidence_based", "majority_vote"}
       /\ fnOutput.resolution = "evidence_based"
            <=> \E i \in DOMAIN fnInput.evidence : StatedWeight(fnInput.evidence[i]) > 8

\* A task has been dequeued and its processTask call has not settled.
InProcessing(id) == run[id].pc \in {"collecting", "analyzing", "deliberating"}

\* C32: the orchestrator never has two tasks in processing at once: the
\* drain callback does not dequeue a task while an earlier task is still
\* awaiting one of its stages.
C32_OneTaskInProcessing ==
    /\ [](Cardinality({id \in TaskIds : InProcessing(id)}) <= 1)
    /\ [][Len(taskQueue') < Len(taskQueue) => \A id \in TaskIds : ~InProcessing(id)]_vars

\* The call was a processTask that handed back a success Result.
TaskSucceeded(call) ==
    /\ HasProp(call, "task")
    /\ ~call.outcome.thrown
    /\ call.outcome.val.success

\* C33: each successful processTask refreshes lastActivityTime and
\* increments tasksCompleted, so an active agent asked isHealthy() less than
\* the inactivity timeout after completing a task is healthy.
C33_CompletedTaskKeepsHealthy ==
    /\ [][(lastCall' # lastCall /\ TaskSucceeded(lastCall'))
           => /\ tasksCompleted'[lastCall'.agent] = tasksCompleted[lastCall'.agent] + 1
              /\ lastActivityTime'[lastCall'.agent] = now']_vars
    /\ [][(/\ TaskSucceeded(lastCall)
            /\ HasProp(lastCall', "op")
            /\ lastCall'.op = "isHealthy"
            /\ lastCall'.agent = lastCall.agent
            /\ lastCall'.status = "active"
            /\ now' - lastCall.outcome.val.timestamp < maxInactivityTime)
           => lastCall'.result]_vars

\* stop() has returned and start() has not been called since.
StopReturned == control.op = "idle" /\ control.last = "stop"

\* C34: after the orchestrator's stop() has returned no task is dequeued
\* and no synthetic (market_prediction) task is added, whatever sequence of
\* start() and stop() calls came before.
C34_NothingRunsAfterStop ==
    [][StopReturned
         => /\ Len(taskQueue') >= Len(taskQueue)
            /\ tasksAdded' > tasksAdded => run'[tasksAdded'].type # "market_prediction"]_vars

\* C35: every agent in the coordinator's registry has been started and not
\* stopped since, so its status is active or error; an inactive agent is
\* never registered.
C35_RegisteredAgentsAreStarted ==
    \A k \in DOMAIN registry :
        /\ status[registry[k].id] \in {"active", "error"}
        /\ lastLifecycleCall[registry[k].id] = "start"

\* C36: registerAgent leaves the agent's id with an empty mailbox, so that
\* registering an id again discards the messages queued for it, and the ids
\* that have a mailbox are always exactly the registered ids.
C36_MailboxesFollowRegistry ==
    /\ [](DOMAIN messageQueues = {registry[k].id : k \in DOMAIN registry})
    /\ [][(coordinatorCalls' # coordinatorCalls /\ lastCall'.op = "registerAgent")
           => messageQueues'[lastCall'.agent] = <<>>]_vars

C36_Witness ==
    /\ HasProp(lastCall, "op")
    /\ lastCall.op = "registerAgent"
    /\ lastCall.wasRegistered
    /\ messageQueues[lastCall.agent] = <<>>
    /\ \E k \in DOMAIN deliveries : deliveries[k].agent.id = lastCall.agent

\* C37: a message is held in a mailbox only until it is delivered: once
\* handleMessage has been invoked for it and every sendMessage call has
\* returned, no mailbox holds it any more.
C37_DeliveredMessagesLeaveMailbox ==
    (sending = {} /\ broadcast = NoBroadcast) =>
    \A k \in DOMAIN deliveries :
        \A id \in DOMAIN messageQueues :
            \A i \in DOMAIN messageQueues[id] :
                messageQueues[id][i].id # deliveries[k].message

(***************************************************************************)
(* The PredictionMarket contract.                                           *)
(***************************************************************************)
\* C38: once a market is resolved its resolved flag and its outcome never
\* change again, whichever of resolveMarket and the VRF callback comes
\* later and however often they are called.
C38_ResolutionIsFinal ==
    [][\A marketId \in MarketIds :
          markets[marketId].resolved
              => /\ markets'[marketId].resolved
                 /\ markets'[marketId].outcome = markets[marketId].outcome]_vars

C38_Witness ==
    /\ HasProp(lastCall, "op")
    /\ lastCall.op = "fulfillRandomWords"
    /\ lastCall.wasResolved
    /\ markets[lastCall.marketId].resolved
    /\ markets[lastCall.marketId].outcome # lastCall.finalOutcome

\* What the contract owes on a market: the stakes while it is unresolved,
\* the winnings not yet claimed once it is resolved.
RECURSIVE UnclaimedWinnings(_, _)
UnclaimedWinnings(marketId, users) ==
    IF users = {} THEN 0
    ELSE LET user == CHOOSE u \in users : TRUE
         IN  calculateWinnings(marketId, user) + UnclaimedWinnings(marketId, users \ {user})

RECURSIVE Owed(_)
Owed(i) ==
    IF i >= nextMarketId THEN 0
    ELSE (IF markets[i].resolved THEN UnclaimedWinnings(i, Users)
          ELSE markets[i].totalYesAmount + markets[i].totalNoAmount)
         + Owed(i + 1)

\* C39: the contract's token balance is at least the stakes of the
\* unresolved markets plus the unclaimed winnings of the resolved ones, so
\* that every claim with winnings can be paid.
C39_BalanceCoversStakesAndWinnings ==
    /\ tokenBalance >= Owed(1)
    /\ \A marketId \in MarketIds, user \in Users :
          tokenBalance >= calculateWinnings(marketId, user)

====
